---------------------------- MODULE Spec2Model ----------------------------
(***************************************************************************)
(* distlib.version: version parsing, ordering and constraint matching.     *)
(*                                                                         *)
(* Strings are TLA+ strings; the text algorithms work on their characters  *)
(* (Chars / Implode).  Python values that end up in a version key are      *)
(* tagged (int, str, tuple) so that the comparison of an int with a str,   *)
(* which raises TypeError on Python 3, is visible in the model.  The       *)
(* package runs on Python 2 and on Python 3 (compat.string_types); the     *)
(* interpreter is the variable python.                                     *)
(***************************************************************************)
EXTENDS Integers, Sequences, FiniteSets, TLC

(***************************************************************************)
(* Characters and Python str operations                                    *)
(***************************************************************************)

\* The printable ASCII characters in code-point order: 32..95 and 97..126
\* (96, the backquote, cannot be written in a string and is left out).
PrintableLow == " !\"#$%&'()*+,-./0123456789:;<=>?@ABCDEFGHIJKLMNOPQRSTUVWXYZ[\\]^_"
PrintableHigh == "abcdefghijklmnopqrstuvwxyz{|}~"

Chars(s) == [i \in 1..Len(s) |-> SubSeq(s, i, i)]

RECURSIVE Implode(_)
Implode(cs) == IF cs = <<>> THEN "" ELSE Head(cs) \o Implode(Tail(cs))

\* F(v) with v evaluated first: sequencing of the steps of an algorithm
Let1(v, F(_)) == CHOOSE out \in {F(r) : r \in {v}} : TRUE

\* ord(c) for a one-character string
Ord(c) ==
    IF \E i \in 1..Len(PrintableLow) : SubSeq(PrintableLow, i, i) = c
    THEN 31 + (CHOOSE i \in 1..Len(PrintableLow) : SubSeq(PrintableLow, i, i) = c)
    ELSE 96 + (CHOOSE i \in 1..Len(PrintableHigh) : SubSeq(PrintableHigh, i, i) = c)

\* chr(n) for a printable code point other than 96
Chr(n) == IF n < 96 THEN SubSeq(PrintableLow, n - 31, n - 31)
          ELSE SubSeq(PrintableHigh, n - 96, n - 96)

Digits == {"0", "1", "2", "3", "4", "5", "6", "7", "8", "9"}
UpperCase == {"A", "B", "C", "D", "E", "F", "G", "H", "I", "J", "K", "L", "M",
              "N", "O", "P", "Q", "R", "S", "T", "U", "V", "W", "X", "Y", "Z"}
LowerCase == {"a", "b", "c", "d", "e", "f", "g", "h", "i", "j", "k", "l", "m",
              "n", "o", "p", "q", "r", "s", "t", "u", "v", "w", "x", "y", "z"}

IsDigit(c) == c \in Digits
IsUpper(c) == c \in UpperCase
IsLower(c) == c \in LowerCase
IsAlpha(c) == IsUpper(c) \/ IsLower(c)
\* \w and \s of the re module, on printable ASCII
IsWord(c) == IsAlpha(c) \/ IsDigit(c) \/ c = "_"
IsSpace(c) == c = " "

LowerChar(c) == IF IsUpper(c) THEN Chr(Ord(c) + 32) ELSE c

\* str.lower()
RECURSIVE Lower(_)
Lower(s) == IF Len(s) = 0 THEN s ELSE LowerChar(SubSeq(s, 1, 1)) \o Lower(SubSeq(s, 2, Len(s)))

RECURSIVE LStrip(_)
LStrip(s) == IF Len(s) > 0 /\ IsSpace(SubSeq(s, 1, 1)) THEN LStrip(SubSeq(s, 2, Len(s))) ELSE s

RECURSIVE RStrip(_)
RStrip(s) == IF Len(s) > 0 /\ IsSpace(SubSeq(s, Len(s), Len(s))) THEN RStrip(SubSeq(s, 1, Len(s) - 1)) ELSE s

\* str.strip()
Strip(s) == RStrip(LStrip(s))

\* str.startswith / str.endswith
StartsWith(s, p) == Len(p) <= Len(s) /\ SubSeq(s, 1, Len(p)) = p
EndsWith(s, p) == Len(p) <= Len(s) /\ SubSeq(s, Len(s) - Len(p) + 1, Len(s)) = p

\* the i-th character of s (1-based), "" outside s
CharAt(s, i) == IF i >= 1 /\ i <= Len(s) THEN SubSeq(s, i, i) ELSE ""

\* s[i:] with a 0-based Python index (0 <= i)
From(s, i) == SubSeq(s, i + 1, Len(s))

\* all characters of s satisfy the class given as a set of characters
AllDigits(s) == Len(s) > 0 /\ \A i \in 1..Len(s) : IsDigit(SubSeq(s, i, i))

\* str.isdigit()
IsDigitStr(s) == AllDigits(s)

\* int(s) for a string of decimal digits
RECURSIVE ToInt(_)
ToInt(s) == IF Len(s) = 0 THEN 0
            ELSE 10 * ToInt(SubSeq(s, 1, Len(s) - 1)) + (Ord(SubSeq(s, Len(s), Len(s))) - 48)

\* str(n) for n >= 0
RECURSIVE IntToStr(_)
IntToStr(n) == IF n < 10 THEN Chr(48 + n)
               ELSE IntToStr(n \div 10) \o Chr(48 + (n % 10))

\* zfill left out: the string as it is
ZFill_Unpadded(s, width) == s

\* str.zfill(width) for a string without a sign
RECURSIVE ZFill(_, _)
ZFill(s, width) == IF Len(s) >= width THEN s ELSE ZFill("0" \o s, width)

\* str.split(sep) for a one-character separator: a sequence of strings
RECURSIVE SplitFrom(_, _, _)
SplitFrom(s, sep, cur) ==
    IF Len(s) = 0 THEN <<cur>>
    ELSE IF SubSeq(s, 1, 1) = sep THEN <<cur>> \o SplitFrom(From(s, 1), sep, "")
    ELSE SplitFrom(From(s, 1), sep, cur \o SubSeq(s, 1, 1))

Split(s, sep) == SplitFrom(s, sep, "")

\* s1 < s2 for Python str: lexicographic by code point
RECURSIVE StrLess(_, _)
StrLess(s1, s2) ==
    IF Len(s2) = 0 THEN FALSE
    ELSE IF Len(s1) = 0 THEN TRUE
    ELSE IF SubSeq(s1, 1, 1) = SubSeq(s2, 1, 1) THEN StrLess(From(s1, 1), From(s2, 1))
    ELSE Ord(SubSeq(s1, 1, 1)) < Ord(SubSeq(s2, 1, 1))

(***************************************************************************)
(* Python values inside a key, and their comparison                        *)
(***************************************************************************)

PyInt(n) == [t |-> "int", n |-> n, s |-> "", items |-> <<>>]
PyStr(s) == [t |-> "str", n |-> 0, s |-> s, items |-> <<>>]
PyTuple(items) == [t |-> "tuple", n |-> 0, s |-> "", items |-> items]

\* the outcome of a call: a value, or the exception it raised
Ok(v) == [exc |-> "none", val |-> v]
Raise(e) == [exc |-> e, val |-> PyTuple(<<>>)]
OkBool(b) == [exc |-> "none", val |-> b]
RaiseBool(e) == [exc |-> e, val |-> FALSE]

\* first index at which two item sequences differ, 0 when one is a prefix of the other
FirstDiff(xs, ys) ==
    LET n == IF Len(xs) < Len(ys) THEN Len(xs) ELSE Len(ys)
        D == {i \in 1..n : xs[i] # ys[i]}
    IN IF D = {} THEN 0 ELSE CHOOSE i \in D : \A j \in D : i <= j

\* rank of a type in Python 2's ordering of values of different types:
\* numbers first, then the other types by name
TypeRank(v) == IF v.t = "int" THEN 0 ELSE IF v.t = "str" THEN 1 ELSE 2

\* a < b as Python evaluates it: tuples compare by their first differing
\* items; an int against a str raises TypeError on Python 3 and is ordered
\* by type on Python 2
RECURSIVE PyLess(_, _, _)
PyLess(a, b, python) ==
    IF a.t = "int" /\ b.t = "int" THEN OkBool(a.n < b.n)
    ELSE IF a.t = "str" /\ b.t = "str" THEN OkBool(StrLess(a.s, b.s))
    ELSE IF a.t = "tuple" /\ b.t = "tuple" THEN
        LET i == FirstDiff(a.items, b.items)
        IN IF i = 0 THEN OkBool(Len(a.items) < Len(b.items))
           ELSE PyLess(a.items[i], b.items[i], python)
    ELSE IF python = 3 THEN RaiseBool("TypeError")
    ELSE OkBool(TypeRank(a) < TypeRank(b))

(***************************************************************************)
(* standard.py: NormalizedVersion                                          *)
(***************************************************************************)

\* length of the longest prefix of s made of digits: what \d+ consumes
RECURSIVE DigitRun(_)
DigitRun(s) == IF Len(s) > 0 /\ IsDigit(SubSeq(s, 1, 1)) THEN 1 + DigitRun(From(s, 1)) ELSE 0

\* length of what (\.\d+)* consumes at the start of s
RECURSIVE DotNumsRun(_)
DotNumsRun(s) ==
    IF StartsWith(s, ".") /\ DigitRun(From(s, 1)) > 0
    THEN 1 + DigitRun(From(s, 1)) + DotNumsRun(From(s, 1 + DigitRun(From(s, 1))))
    ELSE 0

\* length of what \d+\.\d+(\.\d+)* consumes at the start of s, 0 if it does not match
ReleaseRun(s) ==
    LET n1 == DigitRun(s)
        r1 == From(s, n1)
        n2 == DigitRun(From(r1, 1))
    IN IF n1 > 0 /\ StartsWith(r1, ".") /\ n2 > 0
       THEN n1 + 1 + n2 + DotNumsRun(From(r1, 1 + n2))
       ELSE 0

\* the tag (a|b|c|rc) at the start of s when digits follow it, else ""
PreTagAt(s) ==
    IF \E tg \in {"a", "b", "c"} : StartsWith(s, tg) /\ DigitRun(From(s, 1)) > 0
    THEN SubSeq(s, 1, 1)
    ELSE IF StartsWith(s, "rc") /\ DigitRun(From(s, 2)) > 0 THEN "rc"
    ELSE ""

\* the digits of (\.(word)(\d+))? at the start of s, "" when the group is absent
TaggedNumAt(s, word) ==
    LET r == From(s, 1 + Len(word))
    IN IF StartsWith(s, "." \o word) /\ DigitRun(r) > 0 THEN SubSeq(r, 1, DigitRun(r)) ELSE ""

\* VERSION_REGEX.match(s): the groups the parser reads, "" for a group that
\* did not take part (None in Python).  The pattern is matched left to
\* right: release, pre-release tag and number, post number, dev number.
VERSION_REGEX(s) ==
    Let1(ReleaseRun(s), LAMBDA n :
    Let1(PreTagAt(From(s, n)), LAMBDA tag :
    Let1(IF tag = "" THEN "" ELSE SubSeq(s, n + Len(tag) + 1,
                                         n + Len(tag) + DigitRun(From(s, n + Len(tag)))),
         LAMBDA pnum :
    Let1(TaggedNumAt(From(s, n + Len(tag) + Len(pnum)), "post"), LAMBDA post :
    Let1(n + Len(tag) + Len(pnum) + (IF post = "" THEN 0 ELSE 5 + Len(post)), LAMBDA n3 :
    Let1(TaggedNumAt(From(s, n3), "dev"), LAMBDA dev :
        [matched |-> n > 0 /\ n3 + (IF dev = "" THEN 0 ELSE 4 + Len(dev)) = Len(s),
         release |-> SubSeq(s, 1, n), pretag |-> tag, prenum |-> pnum,
         post |-> post, dev |-> dev]))))))

\* tuple(int(v) for v in release.split('.'))
IntsOf(parts) == [i \in 1..Len(parts) |-> ToInt(parts[i])]

\* while len(nums) > 1 and nums[-1] == 0: nums = nums[:-1]
RECURSIVE DropTrailingZerosRec(_)
DropTrailingZerosRec(nums) ==
    IF Len(nums) > 1 /\ nums[Len(nums)] = 0
    THEN DropTrailingZerosRec(SubSeq(nums, 1, Len(nums) - 1))
    ELSE nums

\* the release kept as written: the loop that strips the zeros is missing
DropTrailingZeros_Kept(nums) == nums

DropTrailingZeros(nums) == DropTrailingZerosRec(nums)

PyInts(nums) == PyTuple([i \in 1..Len(nums) |-> PyInt(nums[i])])

\* the key without the ('a', -1) marker of a bare dev release
NormalizedKey_NoDevMarker(g) ==
    LET nums == DropTrailingZeros(IntsOf(Split(g.release, ".")))
        pre  == IF g.pretag # "" THEN PyTuple(<<PyStr(g.pretag), PyInt(ToInt(g.prenum))>>)
                ELSE PyTuple(<<PyStr("z")>>)
        post == IF g.post = "" THEN PyTuple(<<PyStr("_")>>)
                ELSE PyTuple(<<PyStr("post"), PyInt(ToInt(g.post))>>)
        dev  == IF g.dev = "" THEN PyTuple(<<PyStr("final")>>)
                ELSE PyTuple(<<PyStr("dev"), PyInt(ToInt(g.dev))>>)
    IN PyTuple(<<PyInts(nums), pre, post, dev>>)

\* the key (nums, pre, post, dev) built from the groups of a match
NormalizedKey(g) ==
    LET nums == DropTrailingZeros(IntsOf(Split(g.release, ".")))
        pre  == IF g.pretag # "" THEN PyTuple(<<PyStr(g.pretag), PyInt(ToInt(g.prenum))>>)
                ELSE IF g.post = "" /\ g.dev # "" THEN PyTuple(<<PyStr("a"), PyInt(-1)>>)
                ELSE PyTuple(<<PyStr("z")>>)
        post == IF g.post = "" THEN PyTuple(<<PyStr("_")>>)
                ELSE PyTuple(<<PyStr("post"), PyInt(ToInt(g.post))>>)
        dev  == IF g.dev = "" THEN PyTuple(<<PyStr("final")>>)
                ELSE PyTuple(<<PyStr("dev"), PyInt(ToInt(g.dev))>>)
    IN PyTuple(<<PyInts(nums), pre, post, dev>>)

\* NormalizedVersion.parse
NormalizedParse(version_string) ==
    Let1(VERSION_REGEX(Strip(version_string)), LAMBDA g :
        IF ~g.matched THEN Raise("ValueError") ELSE Ok(NormalizedKey(g)))

(***************************************************************************)
(* semantic.py / __init__.py: SemanticVersion                              *)
(***************************************************************************)

IsAlnum(c) == IsAlpha(c) \/ IsDigit(c)

\* s matches [a-z0-9]+ (re.I)
IsAlnumStr(s) == Len(s) > 0 /\ \A i \in 1..Len(s) : IsAlnum(SubSeq(s, i, i))

\* s matches [a-z0-9-]+ (re.I)
IsAlnumHyphenStr(s) ==
    Len(s) > 0 /\ \A i \in 1..Len(s) : IsAlnum(SubSeq(s, i, i)) \/ SubSeq(s, i, i) = "-"

\* body matches [a-z0-9]+(\.[a-z0-9-]+)*
IsIdentifiers(body) ==
    LET parts == Split(body, ".")
    IN IsAlnumStr(parts[1]) /\ \A i \in 2..Len(parts) : IsAlnumHyphenStr(parts[i])

\* index of the first "+" of s, Len(s) + 1 when there is none
RECURSIVE PlusIndex(_)
PlusIndex(s) == IF Len(s) = 0 \/ SubSeq(s, 1, 1) = "+" THEN 1 ELSE 1 + PlusIndex(From(s, 1))

\* SEMVER_REGEX.match(s): major, minor, patch and the prerelease and build
\* groups with their leading "-" / "+", "" for a group that did not take part
SEMVER_REGEX(s) ==
    Let1(DigitRun(s), LAMBDA n1 :
    Let1(DigitRun(From(s, n1 + 1)), LAMBDA n2 :
    Let1(DigitRun(From(s, n1 + n2 + 2)), LAMBDA n3 :
    Let1(From(s, n1 + n2 + n3 + 2), LAMBDA rest :
    Let1(PlusIndex(rest), LAMBDA k :
    Let1(<<SubSeq(rest, 1, k - 1), From(rest, k - 1)>>, LAMBDA pb :
        [matched |-> /\ n1 > 0 /\ CharAt(s, n1 + 1) = "." /\ n2 > 0
                     /\ CharAt(s, n1 + n2 + 2) = "." /\ n3 > 0
                     /\ pb[1] = "" \/ (StartsWith(pb[1], "-") /\ IsIdentifiers(From(pb[1], 1)))
                     /\ pb[2] = "" \/ IsIdentifiers(From(pb[2], 1)),
         major |-> SubSeq(s, 1, n1),
         minor |-> SubSeq(s, n1 + 2, n1 + 1 + n2),
         patch |-> SubSeq(s, n1 + n2 + 3, n1 + n2 + 2 + n3),
         pre |-> pb[1], build |-> pb[2]]))))))

\* _make_tuple(s, absent), with "" for s is None
make_tuple(s, absent) ==
    IF s = "" THEN PyTuple(<<PyStr(absent)>>)
    ELSE LET parts == Split(From(s, 1), ".")
         IN PyTuple([i \in 1..Len(parts) |->
                        PyStr(IF IsDigitStr(parts[i]) THEN ZFill(parts[i], 8) ELSE parts[i])])

\* SemanticVersion.parse with '*' for an absent prerelease as well
SemanticParse_StarMarker(version_string) ==
    Let1(SEMVER_REGEX(version_string), LAMBDA g :
        IF ~g.matched THEN Raise("ValueError")
        ELSE Ok(PyTuple(<<PyInts(<<ToInt(g.major), ToInt(g.minor), ToInt(g.patch)>>),
                          make_tuple(g.pre, "*"), make_tuple(g.build, "*")>>)))

\* SemanticVersion.parse (semantic.py) and semantic_key (__init__.py)
SemanticParse(version_string) ==
    Let1(SEMVER_REGEX(version_string), LAMBDA g :
        IF ~g.matched THEN Raise("ValueError")
        ELSE Ok(PyTuple(<<PyInts(<<ToInt(g.major), ToInt(g.minor), ToInt(g.patch)>>),
                          make_tuple(g.pre, "|"), make_tuple(g.build, "*")>>)))

(***************************************************************************)
(* legacy.py: LegacyVersion                                                *)
(***************************************************************************)

RECURSIVE AlphaRun(_)
AlphaRun(s) == IF Len(s) > 0 /\ IsAlpha(SubSeq(s, 1, 1)) THEN 1 + AlphaRun(From(s, 1)) ELSE 0

\* a character VERSION_PART_REGEX can start a match at
IsPartChar(c) == IsAlpha(c) \/ IsDigit(c) \/ c = "." \/ c = "-"

RECURSIVE OtherRun(_)
OtherRun(s) == IF Len(s) > 0 /\ ~IsPartChar(SubSeq(s, 1, 1)) THEN 1 + OtherRun(From(s, 1)) ELSE 0

\* VERSION_PART_REGEX.split(s) without the empty strings: the runs of letters,
\* the runs of digits, each "." and "-", and the text between them, in order
RECURSIVE VERSION_PART_REGEX_split(_)
VERSION_PART_REGEX_split(s) ==
    IF Len(s) = 0 THEN <<>>
    ELSE LET c == SubSeq(s, 1, 1)
             n == IF IsAlpha(c) THEN AlphaRun(s)
                  ELSE IF IsDigit(c) THEN DigitRun(s)
                  ELSE IF c = "." \/ c = "-" THEN 1
                  ELSE OtherRun(s)
         IN <<SubSeq(s, 1, n)>> \o Let1(From(s, n), LAMBDA r : VERSION_PART_REGEX_split(r))

\* VERSION_REPLACE.get(part, part), "" for None
VERSION_REPLACE(part) ==
    IF part = "pre" \/ part = "preview" \/ part = "rc" THEN "c"
    ELSE IF part = "-" THEN "final-"
    ELSE IF part = "dev" THEN "@"
    ELSE IF part = "." THEN ""
    ELSE part

\* the loop body of _get_parts for the parts still to come
RECURSIVE GetPartsLoop(_)
GetPartsLoop(parts) ==
    IF parts = <<>> THEN <<>>
    ELSE LET part == VERSION_REPLACE(Head(parts))
         IN IF part = "" THEN GetPartsLoop(Tail(parts))
            ELSE IF Ord(SubSeq(part, 1, 1)) >= 48 /\ Ord(SubSeq(part, 1, 1)) <= 57
                 THEN <<ZFill(part, 8)>> \o GetPartsLoop(Tail(parts))
            ELSE <<"*" \o part>> \o GetPartsLoop(Tail(parts))

\* _get_parts without the closing "*final"
get_parts_Unclosed(version_string) ==
    GetPartsLoop(VERSION_PART_REGEX_split(Lower(version_string)))

\* _get_parts
get_parts(version_string) ==
    Append(GetPartsLoop(VERSION_PART_REGEX_split(Lower(version_string))), "*final")

\* the while loop left out: nothing is popped
PopWhile_Kept(result, tok) == result

\* while result and result[-1] == tok: result.pop()
RECURSIVE PopWhile(_, _)
PopWhile(result, tok) ==
    IF Len(result) > 0 /\ result[Len(result)] = tok
    THEN PopWhile(SubSeq(result, 1, Len(result) - 1), tok)
    ELSE result

\* the second loop of LegacyVersion.parse
RECURSIVE LegacyLoop(_, _)
LegacyLoop(parts, result) ==
    IF parts = <<>> THEN result
    ELSE LET part == Head(parts)
             r1 == IF StartsWith(part, "*") /\ StrLess(part, "*final")
                   THEN PopWhile(result, "*final-") ELSE result
             r2 == IF StartsWith(part, "*") THEN PopWhile(r1, "00000000") ELSE result
         IN Let1(Append(r2, part), LAMBDA r : LegacyLoop(Tail(parts), r))

\* LegacyVersion.parse: it never raises
LegacyParse(version_string) ==
    LET result == LegacyLoop(get_parts(version_string), <<>>)
    IN Ok(PyTuple([i \in 1..Len(result) |-> PyStr(result[i])]))

(***************************************************************************)
(* standard.py: NormalizedVersionScheme.suggest                            *)
(***************************************************************************)

\* an optional str: None, or a string
NoneStr == [none |-> TRUE, s |-> ""]
SomeStr(s) == [none |-> FALSE, s |-> s]

\* str.replace(orig, repl)
RECURSIVE ReplaceAll(_, _, _)
ReplaceAll(s, orig, repl) ==
    IF Len(s) < Len(orig) THEN s
    ELSE IF StartsWith(s, orig) THEN repl \o ReplaceAll(From(s, Len(orig)), orig, repl)
    ELSE SubSeq(s, 1, 1) \o ReplaceAll(From(s, 1), orig, repl)

\* the (orig, repl) pairs of the first loop of suggest, in order
SUGGEST_REPLACEMENTS ==
    << <<"-alpha", "a">>, <<"-beta", "b">>, <<"alpha", "a">>, <<"beta", "b">>,
       <<"rc", "c">>, <<"-final", "">>, <<"-pre", "c">>, <<"-release", "">>,
       <<".release", "">>, <<"-stable", "">>, <<"+", ".">>, <<"_", ".">>,
       <<" ", "">>, <<".final", "">>, <<"final", "">> >>

RECURSIVE ReplaceEach(_, _)
ReplaceEach(s, pairs) ==
    IF pairs = <<>> THEN s
    ELSE Let1(ReplaceAll(s, Head(pairs)[1], Head(pairs)[2]),
              LAMBDA r : ReplaceEach(r, Tail(pairs)))

\* length of the longest suffix of s made of digits: what (\d+)$ matches
RECURSIVE TrailDigitRun(_)
TrailDigitRun(s) ==
    IF Len(s) > 0 /\ IsDigit(SubSeq(s, Len(s), Len(s)))
    THEN 1 + TrailDigitRun(SubSeq(s, 1, Len(s) - 1)) ELSE 0

\* s without its trailing digits, and those digits
BeforeDigits(s) == SubSeq(s, 1, Len(s) - TrailDigitRun(s))
EndDigits(s) == SubSeq(s, Len(s) - TrailDigitRun(s) + 1, Len(s))

DropLast(s, n) == SubSeq(s, 1, Len(s) - n)
\* s without one trailing "." : what a \.? just before the rest of a match takes
DropDot(s) == IF EndsWith(s, ".") THEN DropLast(s, 1) ELSE s
DropSep(s) == IF EndsWith(s, ".") \/ EndsWith(s, "-") THEN DropLast(s, 1) ELSE s

\* re.sub(r"pre$", r"pre0", s) and re.sub(r"dev$", r"dev0", s)
SubBareTag(s, tag) == IF EndsWith(s, tag) THEN s \o "0" ELSE s

\* re.sub(r"([abc]|rc)[\-\.](\d+)$", r"\1\2", s)
SubPreSep(s) ==
    LET b == BeforeDigits(s)
    IN IF /\ TrailDigitRun(s) > 0
          /\ \E sep \in {"-", "."} : \E tg \in {"a", "b", "c"} : EndsWith(b, tg \o sep)
       THEN DropLast(b, 1) \o EndDigits(s) ELSE s

\* re.sub(r"[\-\.](dev)[\-\.]?r?(\d+)$", r".\1\2", s)
SubDevR(s) ==
    LET b  == BeforeDigits(s)
        b1 == IF EndsWith(b, "r") THEN DropLast(b, 1) ELSE b
        b2 == DropSep(b1)
    IN IF TrailDigitRun(s) > 0 /\ (EndsWith(b2, "-dev") \/ EndsWith(b2, ".dev"))
       THEN DropLast(b2, 4) \o ".dev" \o EndDigits(s) ELSE s

\* re.sub(r"[.~]?([abc])\.?", r"\1", s)
RECURSIVE SubCleanPre(_)
SubCleanPre(s) ==
    IF Len(s) = 0 THEN s
    ELSE LET c1 == SubSeq(s, 1, 1)
             lead == IF (c1 = "." \/ c1 = "~") /\ CharAt(s, 2) \in {"a", "b", "c"}
                     THEN 1 ELSE 0
             hit == lead = 1 \/ c1 \in {"a", "b", "c"}
             tail == IF CharAt(s, lead + 2) = "." THEN 1 ELSE 0
         IN IF hit THEN CharAt(s, lead + 1)
                         \o Let1(From(s, lead + 1 + tail), LAMBDA r : SubCleanPre(r))
            ELSE c1 \o Let1(From(s, 1), LAMBDA r : SubCleanPre(r))

\* a run of digits without its leading zeros, one digit kept: 0+(\d+)
RECURSIVE StripZeros(_)
StripZeros(run) == IF Len(run) > 1 /\ StartsWith(run, "0") THEN StripZeros(From(run, 1)) ELSE run

\* re.sub(r"\b0+(\d+)(?!\d)", r"\1", s); prevWord: the character before s is a \w
RECURSIVE SubLeadingZeros(_, _)
SubLeadingZeros(s, prevWord) ==
    IF Len(s) = 0 THEN s
    ELSE IF IsDigit(SubSeq(s, 1, 1))
    THEN LET run == SubSeq(s, 1, DigitRun(s))
         IN (IF prevWord THEN run ELSE StripZeros(run))
            \o Let1(From(s, DigitRun(s)), LAMBDA r : SubLeadingZeros(r, TRUE))
    ELSE SubSeq(s, 1, 1)
         \o Let1(<<From(s, 1), IsWord(SubSeq(s, 1, 1))>>, LAMBDA r : SubLeadingZeros(r[1], r[2]))

\* re.sub(r"(\d+[abc])$", r"\g<1>0", s)
SubBarePre(s) ==
    IF Len(s) >= 2 /\ SubSeq(s, Len(s), Len(s)) \in {"a", "b", "c"}
                   /\ IsDigit(SubSeq(s, Len(s) - 1, Len(s) - 1))
    THEN s \o "0" ELSE s

\* re.sub(r"\.?(dev-r|dev\.r)\.?(\d+)$", r".dev\2", s)
SubDevDashR(s) ==
    LET b == DropDot(BeforeDigits(s))
    IN IF TrailDigitRun(s) > 0 /\ (EndsWith(b, "dev-r") \/ EndsWith(b, "dev.r"))
       THEN DropDot(DropLast(b, 5)) \o ".dev" \o EndDigits(s) ELSE s

\* re.sub(r"-(a|b|c)(\d+)$", r"\1\2", s)
SubDashPre(s) ==
    LET b == BeforeDigits(s)
    IN IF TrailDigitRun(s) > 0 /\ \E tg \in {"a", "b", "c"} : EndsWith(b, "-" \o tg)
       THEN DropLast(b, 2) \o SubSeq(b, Len(b), Len(b)) \o EndDigits(s) ELSE s

\* re.sub(r"[\.\-](dev|devel)$", r".dev0", s)
SubTerminalDevel(s) ==
    IF EndsWith(s, ".dev") \/ EndsWith(s, "-dev") THEN DropLast(s, 4) \o ".dev0"
    ELSE IF EndsWith(s, ".devel") \/ EndsWith(s, "-devel") THEN DropLast(s, 6) \o ".dev0"
    ELSE s

\* re.sub(r"(?![\.\-])dev$", r".dev0", s)
SubTerminalDev(s) == IF EndsWith(s, "dev") THEN DropLast(s, 3) \o ".dev0" ELSE s

\* re.sub(r"(final|stable)$", "", s)
SubFinalStable(s) ==
    IF EndsWith(s, "final") THEN DropLast(s, 5)
    ELSE IF EndsWith(s, "stable") THEN DropLast(s, 6)
    ELSE s

\* re.sub(r"\.?(r|-|-r)\.?(\d+)$", r".post\2", s)
SubPostR(s) ==
    LET b == DropDot(BeforeDigits(s))
        n == IF EndsWith(b, "-r") THEN 2
             ELSE IF EndsWith(b, "r") \/ EndsWith(b, "-") THEN 1
             ELSE 0
    IN IF TrailDigitRun(s) > 0 /\ n > 0
       THEN DropDot(DropLast(b, n)) \o ".post" \o EndDigits(s) ELSE s

\* re.sub(r"\.?(dev|git|bzr)\.?(\d+)$", r".dev\2", s)
SubDevGitBzr(s) ==
    LET b == DropDot(BeforeDigits(s))
    IN IF TrailDigitRun(s) > 0 /\ \E w \in {"dev", "git", "bzr"} : EndsWith(b, w)
       THEN DropDot(DropLast(b, 3)) \o ".dev" \o EndDigits(s) ELSE s

\* re.sub(r"\.?(pre|preview|-c)(\d+)$", r"c\g<2>", s)
SubPreview(s) ==
    LET b == BeforeDigits(s)
        n == IF EndsWith(b, "preview") THEN 7
             ELSE IF EndsWith(b, "pre") THEN 3
             ELSE IF EndsWith(b, "-c") THEN 2
             ELSE 0
    IN IF TrailDigitRun(s) > 0 /\ n > 0
       THEN DropDot(DropLast(b, n)) \o "c" \o EndDigits(s) ELSE s

\* re.sub(r"p(\d+)$", r".post\1", s)
SubTclPost(s) ==
    LET b == BeforeDigits(s)
    IN IF TrailDigitRun(s) > 0 /\ EndsWith(b, "p")
       THEN DropLast(b, 1) \o ".post" \o EndDigits(s) ELSE s

\* the rewrites of suggest between the first and the second parse attempt,
\* in order: lower(), the replacement loop, then one re.sub per step
SuggestSteps ==
    <<"lower", "replacements", "pre$", "dev$", "pre-sep", "dev-r", "clean-pre", "v",
      "leading-zeros", "bare-pre", "dev-dash-r", "dash-pre", "terminal-devel",
      "terminal-dev", "final-stable", "post-r", "dev-git-bzr", "preview", "tcl-post">>

SuggestStep(step, s) ==
    CASE step = "lower"          -> Lower(s)
      [] step = "replacements"   -> ReplaceEach(s, SUGGEST_REPLACEMENTS)
      [] step = "pre$"           -> SubBareTag(s, "pre")
      [] step = "dev$"           -> SubBareTag(s, "dev")
      [] step = "pre-sep"        -> SubPreSep(s)
      [] step = "dev-r"          -> SubDevR(s)
      [] step = "clean-pre"      -> SubCleanPre(s)
      [] step = "v"              -> IF StartsWith(s, "v") THEN From(s, 1) ELSE s
      [] step = "leading-zeros"  -> SubLeadingZeros(s, FALSE)
      [] step = "bare-pre"       -> SubBarePre(s)
      [] step = "dev-dash-r"     -> SubDevDashR(s)
      [] step = "dash-pre"       -> SubDashPre(s)
      [] step = "terminal-devel" -> SubTerminalDevel(s)
      [] step = "terminal-dev"   -> SubTerminalDev(s)
      [] step = "final-stable"   -> SubFinalStable(s)
      [] step = "post-r"         -> SubPostR(s)
      [] step = "dev-git-bzr"    -> SubDevGitBzr(s)
      [] step = "preview"        -> SubPreview(s)
      [] step = "tcl-post"       -> SubTclPost(s)

RECURSIVE SuggestStepsRec(_, _)
SuggestStepsRec(steps, s) ==
    IF steps = <<>> THEN s
    ELSE Let1(SuggestStep(Head(steps), s), LAMBDA r : SuggestStepsRec(Tail(steps), r))

SuggestRewrite(version_string) == SuggestStepsRec(SuggestSteps, version_string)

\* NormalizedVersionScheme.suggest without the last try: the rewritten text is
\* returned whether it parses or not
NormalizedSuggest_Unvalidated(version_string) ==
    IF NormalizedParse(Strip(version_string)).exc = "none" THEN SomeStr(version_string)
    ELSE SomeStr(SuggestRewrite(version_string))

\* NormalizedVersionScheme.suggest
NormalizedSuggest(version_string) ==
    IF NormalizedParse(Strip(version_string)).exc = "none" THEN SomeStr(version_string)
    ELSE Let1(SuggestRewrite(version_string),
              LAMBDA suggested : IF NormalizedParse(Strip(suggested)).exc = "none"
                                 THEN SomeStr(suggested) ELSE NoneStr)

(***************************************************************************)
(* __init__.py, semantic.py: the semantic and the adaptive suggester       *)
(***************************************************************************)

\* re.sub(r'\b(w1|w2)\b', repl, s): prev is the character before s
RECURSIVE SubWord(_, _, _, _)
SubWord(s, words, repl, prev) ==
    IF Len(s) = 0 THEN ""
    ELSE LET hits == {i \in 1..Len(words) :
                         /\ StartsWith(s, words[i])
                         /\ ~IsWord(prev)
                         /\ ~IsWord(CharAt(s, Len(words[i]) + 1))}
         IN IF hits = {}
            THEN SubSeq(s, 1, 1) \o SubWord(From(s, 1), words, repl, SubSeq(s, 1, 1))
            ELSE Let1(Len(words[CHOOSE i \in hits : \A j \in hits : i <= j]), LAMBDA n :
                    repl \o SubWord(From(s, n), words, repl, SubSeq(s, n, n)))

\* re.sub('[.]{2,}', '.', s)
RECURSIVE CollapseDots(_)
CollapseDots(s) ==
    IF Len(s) = 0 THEN ""
    ELSE IF StartsWith(s, "..") THEN CollapseDots(From(s, 1))
    ELSE SubSeq(s, 1, 1) \o CollapseDots(From(s, 1))

\* the loop over _REPLACEMENTS: each pattern substituted once, in order
_REPLACEMENTS(s) ==
    LET \* re.sub(r'^v(ersion)?\s*(\d+)', r'\2', w) and the same with r(ev)?
        SubLeadingWord(w, long, short) ==
            IF StartsWith(w, long) /\ DigitRun(LStrip(From(w, Len(long)))) > 0
            THEN LStrip(From(w, Len(long)))
            ELSE IF StartsWith(w, short) /\ DigitRun(LStrip(From(w, Len(short)))) > 0
            THEN LStrip(From(w, Len(short)))
            ELSE w
    IN
    Let1(IF \E c \in {".", "+", "-"} : EndsWith(s, c) THEN DropLast(s, 1) ELSE s, LAMBDA s1 :
    Let1(IF StartsWith(s1, ".") /\ IsDigit(CharAt(s1, 2)) THEN "0" \o s1 ELSE s1, LAMBDA s2 :
    Let1(IF StartsWith(s2, ".") \/ StartsWith(s2, "-") THEN From(s2, 1) ELSE s2, LAMBDA s3 :
    Let1(IF Len(s3) >= 2 /\ StartsWith(s3, "(") /\ EndsWith(s3, ")")
         THEN SubSeq(s3, 2, Len(s3) - 1) ELSE s3, LAMBDA s4 :
    Let1(SubLeadingWord(s4, "version", "v"), LAMBDA s5 :
    Let1(SubLeadingWord(s5, "rev", "r"), LAMBDA s6 :
    Let1(CollapseDots(s6), LAMBDA s7 :
    Let1(SubWord(s7, <<"alfa", "apha">>, "alpha", ""), LAMBDA s8 :
    Let1(SubWord(s8, <<"pre-alpha", "prealpha">>, "pre.alpha", ""), LAMBDA s9 :
        IF EndsWith(s9, "(beta)") THEN DropLast(s9, 6) \o "beta" ELSE s9)))))))))

\* the loop over _SUFFIX_REPLACEMENTS: leading puncts removed, unwanted
\* characters removed, illegal characters replaced by ".", runs of "."
\* collapsed, one trailing "." removed
_SUFFIX_REPLACEMENTS(suffix) ==
    LET kept == {i \in 1..Len(suffix) : SubSeq(suffix, i, i) \notin {":", "~", ".", "_", "+", "-"}}
        SubChar(c) == IF c \in {",", "*", "\"", ")", "(", "[", "]"} THEN ""
                      ELSE IF c \in {"~", ":", "+", "_", " ", "-"} THEN "."
                      ELSE c
    IN
    Let1(IF kept = {} THEN ""
         ELSE From(suffix, (CHOOSE i \in kept : \A j \in kept : i <= j) - 1), LAMBDA s1 :
    Let1(Implode([i \in 1..Len(s1) |-> SubChar(SubSeq(s1, i, i))]), LAMBDA s2 :
    Let1(CollapseDots(s2), LAMBDA s3 :
        IF EndsWith(s3, ".") THEN DropLast(s3, 1) ELSE s3)))

\* suggest_semantic_version (__init__.py); SemanticVersionScheme.suggest of
\* semantic.py is the same text
suggest_semantic_version(s) ==
    LET \* '.'.join([str(i) for i in nums])
        Join(nums) == Implode([i \in 1..Len(nums) |->
                                  (IF i > 1 THEN "." ELSE "") \o IntToStr(nums[i])])
    IN
    Let1(_REPLACEMENTS(Lower(Strip(s))), LAMBDA r0 :
    Let1(IF r0 = "" THEN "0.0.0" ELSE r0, LAMBDA result :
    Let1(IF DigitRun(result) = 0 THEN 0
         ELSE DigitRun(result) + DotNumsRun(From(result, DigitRun(result))), LAMBDA n :
    Let1(IF n = 0 THEN <<0, 0, 0>>
         ELSE IntsOf(Split(SubSeq(result, 1, n), ".")), LAMBDA nums :
    Let1(IF Len(nums) >= 3 THEN nums
         ELSE nums \o [i \in 1..(3 - Len(nums)) |-> 0], LAMBDA prefix :
    Let1(IF n = 0 THEN result
         ELSE Strip((IF Len(prefix) = 3 THEN "" ELSE Join(SubSeq(prefix, 4, Len(prefix))))
                    \o From(result, n)), LAMBDA suffix0 :
    Let1(IF suffix0 # "" THEN _SUFFIX_REPLACEMENTS(suffix0) ELSE suffix0, LAMBDA suffix :
    Let1(IF suffix = "" THEN Join(SubSeq(prefix, 1, 3))
         ELSE Join(SubSeq(prefix, 1, 3))
              \o (IF \E i \in 1..Len(suffix) : StartsWith(From(suffix, i - 1), "dev")
                  THEN "-" ELSE "+")
              \o suffix, LAMBDA suggested :
        IF SEMVER_REGEX(suggested).matched THEN SomeStr(suggested) ELSE NoneStr))))))))

\* suggest_adaptive_version: a or b, where None and '' are false
suggest_adaptive_version(s) ==
    Let1(NormalizedSuggest(s), LAMBDA n :
        IF ~n.none /\ n.s # "" THEN n ELSE suggest_semantic_version(s))

(***************************************************************************)
(* base.py: Version objects and their comparison                           *)
(***************************************************************************)

\* Python's None, where a Version is expected
None == [cls |-> "NoneType", string |-> "", parts |-> PyTuple(<<>>)]

OkVersion(v) == [exc |-> "none", val |-> v]
RaiseVersion(e) == [exc |-> e, val |-> None]

\* Version.__init__ of the class cls: string is s.strip() and parsed the
\* outcome of self.parse(string)
Version__init__(cls, string, parsed) ==
    IF parsed.exc # "none" THEN RaiseVersion(parsed.exc)
    ELSE OkVersion([cls |-> cls, string |-> string, parts |-> parsed.val])

NormalizedVersion(s) ==
    Let1(Strip(s), LAMBDA string :
        Version__init__("NormalizedVersion", string, NormalizedParse(string)))

LegacyVersion(s) ==
    Let1(Strip(s), LAMBDA string :
        Version__init__("LegacyVersion", string, LegacyParse(string)))

SemanticVersion(s) ==
    Let1(Strip(s), LAMBDA string :
        Version__init__("SemanticVersion", string, SemanticParse(string)))

\* adaptive_key without the suggestion: a string that is no normalized
\* version goes straight to semantic_key
adaptive_key_NoSuggestion(s) ==
    Let1(NormalizedParse(s), LAMBDA r :
        IF r.exc = "none" THEN r ELSE SemanticParse(s))

\* adaptive_key (__init__.py)
adaptive_key(s) ==
    Let1(NormalizedParse(s), LAMBDA r :
        IF r.exc = "none" THEN r
        ELSE Let1(NormalizedSuggest(s), LAMBDA ss :
                 IF ~ss.none THEN NormalizedParse(ss.s) ELSE SemanticParse(s)))

\* AdaptiveVersion of __init__.py: a class of its own whose parse is adaptive_key
AdaptiveVersion(s) ==
    Let1(Strip(s), LAMBDA string :
        Version__init__("AdaptiveVersion", string, adaptive_key(string)))

\* AdaptiveVersion.__new__ of adaptive.py: the object it returns is the
\* NormalizedVersion or the SemanticVersion it built.  When both schemes
\* reject the string, object.__new__ is called with an argument: TypeError
\* on Python 3, and on Python 2 an object whose __init__ raises ValueError.
AdaptiveVersion__new__(version_string, python) ==
    Let1(NormalizedVersion(version_string), LAMBDA n :
        IF n.exc = "none" THEN n
        ELSE Let1(NormalizedSuggest(version_string), LAMBDA suggested :
                 IF ~suggested.none /\ suggested.s # "" THEN NormalizedVersion(suggested.s)
                 ELSE Let1(SemanticVersion(version_string), LAMBDA sem :
                          IF sem.exc = "none" THEN sem
                          ELSE RaiseVersion(IF python = 3 THEN "TypeError"
                                            ELSE "ValueError"))))

\* Version._check_compatible: type(self) != type(other)
Version_check_compatible(self, other) == self.cls = other.cls

\* Version.__eq__
Version__eq__(self, other) ==
    IF ~Version_check_compatible(self, other) THEN RaiseBool("TypeError")
    ELSE OkBool(self.parts = other.parts)

\* Version.__ne__
Version__ne__(self, other) ==
    LET e == Version__eq__(self, other)
    IN IF e.exc # "none" THEN e ELSE OkBool(~e.val)

\* Version.__lt__
Version__lt__(self, other, python) ==
    IF ~Version_check_compatible(self, other) THEN RaiseBool("TypeError")
    ELSE PyLess(self.parts, other.parts, python)

\* a or b, where b is evaluated only when a is false and an exception ends both
PyOr(a, b) == IF a.exc # "none" \/ a.val THEN a ELSE b

\* Version.__gt__
Version__gt__(self, other, python) ==
    LET r == PyOr(Version__lt__(self, other, python), Version__eq__(self, other))
    IN IF r.exc # "none" THEN r ELSE OkBool(~r.val)

\* Version.__le__
Version__le__(self, other, python) ==
    PyOr(Version__lt__(self, other, python), Version__eq__(self, other))

\* Version.__ge__
Version__ge__(self, other, python) ==
    PyOr(Version__gt__(self, other, python), Version__eq__(self, other))

\* Version.__hash__: hash(self._parts); the model keeps the hashed value
Version__hash__(self) == self.parts

\* is_prerelease of each Version class: a tag of PREREL_TAGS in the key
\* (standard.py, legacy.py), a prerelease tuple that is not the marker '|'
\* (semantic.py and __init__.py), and for the AdaptiveVersion of __init__.py
\* the one or the other after parsing the string once more
is_prerelease(self) ==
    LET parts == self.parts.items
        AnyTag == \E i \in 1..Len(parts) :
                     /\ parts[i].items[1].t = "str"
                     /\ parts[i].items[1].s \in {"a", "b", "c", "rc", "dev"}
        PreNotMarker == parts[2].items[1] # PyStr("|")
    IN
    IF self.cls = "NormalizedVersion" THEN AnyTag
    ELSE IF self.cls = "LegacyVersion"
    THEN \E i \in 1..Len(parts) :
            parts[i].s \in {"*a", "*alpha", "*b", "*beta", "*c", "*rc", "*r", "*@", "*pre"}
    ELSE IF self.cls = "SemanticVersion" THEN PreNotMarker
    ELSE IF NormalizedParse(self.string).exc = "none" \/ ~NormalizedSuggest(self.string).none
    THEN AnyTag
    ELSE PreNotMarker

(***************************************************************************)
(* base.py, standard.py: Matcher                                           *)
(***************************************************************************)

\* a character of the class [\s\w'.-]
IsNameChar(c) == IsSpace(c) \/ IsWord(c) \/ c \in {"'", ".", "-"}

RECURSIVE NameCharsRun(_)
NameCharsRun(s) ==
    IF Len(s) > 0 /\ IsNameChar(SubSeq(s, 1, 1)) THEN 1 + NameCharsRun(From(s, 1)) ELSE 0

\* length of what \w[\s\w'.-]* consumes at the start of s, 0 if it does not match
NameRun(s) ==
    IF Len(s) > 0 /\ IsWord(SubSeq(s, 1, 1)) THEN 1 + NameCharsRun(From(s, 1)) ELSE 0

\* index of the last c in s, 0 when there is none
LastIndexOf(s, c) ==
    LET I == {i \in 1..Len(s) : SubSeq(s, i, i) = c}
    IN IF I = {} THEN 0 ELSE CHOOSE i \in I : \A j \in I : j <= i

\* predicate_re.match(s) with groups(''): the name, and the text between the
\* "(" that follows the name and the last ")" of s.  The pattern has no $:
\* when no parenthesised group follows the name, the match ends after the name.
predicate_re(s) ==
    Let1(NameRun(s), LAMBDA n :
    Let1(LastIndexOf(s, ")"), LAMBDA close :
        [matched |-> n > 0,
         name |-> SubSeq(s, 1, n),
         constraints |-> IF CharAt(s, n + 1) = "(" /\ close > n + 1
                         THEN SubSeq(s, n + 2, close - 1) ELSE ""]))

\* the alternatives of (<=|>=|<|>|!=|==)? in the order the engine tries them
OPERATOR_ALTERNATIVES == <<"<=", ">=", "<", ">", "!=", "==", "">>

\* v matches [^\s,]+
IsVersionText(v) ==
    Len(v) > 0 /\ \A i \in 1..Len(v) : ~IsSpace(SubSeq(v, i, i)) /\ SubSeq(v, i, i) # ","

\* constraint_re.match(c) with groups('=='): the first alternative for the
\* operator after which \s*([^\s,]+)$ matches the rest of c
constraint_re(c) ==
    LET Rest(i) == LStrip(From(c, Len(OPERATOR_ALTERNATIVES[i])))
        hits == {i \in 1..Len(OPERATOR_ALTERNATIVES) :
                    StartsWith(c, OPERATOR_ALTERNATIVES[i]) /\ IsVersionText(Rest(i))}
    IN IF hits = {} THEN [matched |-> FALSE, op |-> "", version |-> ""]
       ELSE Let1(CHOOSE i \in hits : \A j \in hits : i <= j, LAMBDA i :
                [matched |-> TRUE,
                 op |-> IF OPERATOR_ALTERNATIVES[i] = "" THEN "==" ELSE OPERATOR_ALTERNATIVES[i],
                 version |-> Rest(i)])

\* Python's None, where a Matcher is expected
NoMatcher == [cls |-> "NoneType", string |-> "", name |-> "", key |-> "", parts |-> <<>>]

OkMatcher(m) == [exc |-> "none", val |-> m]
RaiseMatcher(e) == [exc |-> e, val |-> NoMatcher]

MatcherClasses ==
    {"NormalizedMatcher", "LegacyMatcher", "SemanticMatcher", "AdaptiveMatcher",
     "adaptive.AdaptiveMatcher"}

\* version_class of a Matcher class, called on s
version_class(cls, s, python) ==
    IF cls = "NormalizedMatcher" THEN NormalizedVersion(s)
    ELSE IF cls = "LegacyMatcher" THEN LegacyVersion(s)
    ELSE IF cls = "SemanticMatcher" THEN SemanticVersion(s)
    ELSE IF cls = "AdaptiveMatcher" THEN AdaptiveVersion(s)
    ELSE AdaptiveVersion__new__(s, python)

\* the loop of Matcher.__init__ over the constraints: clist, or the exception
\* of the first constraint that does not match or whose version does not parse
RECURSIVE ConstraintsLoop(_, _, _, _)
ConstraintsLoop(cls, constraints, clist, python) ==
    IF constraints = <<>> THEN [exc |-> "none", val |-> clist]
    ELSE Let1(constraint_re(Strip(Head(constraints))), LAMBDA m :
            IF ~m.matched THEN [exc |-> "ValueError", val |-> <<>>]
            ELSE Let1(version_class(cls, m.version, python), LAMBDA v :
                    IF v.exc # "none" THEN [exc |-> v.exc, val |-> <<>>]
                    ELSE Let1(Append(clist, [op |-> m.op, version |-> v.val]), LAMBDA r :
                            ConstraintsLoop(cls, Tail(constraints), r, python))))

\* Matcher.__init__ of the class cls
Matcher__init__(cls, s, python) ==
    Let1(Strip(s), LAMBDA string :
    Let1(predicate_re(string), LAMBDA m :
        IF ~m.matched THEN RaiseMatcher("ValueError")
        ELSE Let1(IF m.constraints # "" THEN ConstraintsLoop(cls, Split(m.constraints, ","), <<>>, python)
                  ELSE [exc |-> "none", val |-> <<>>],
                  LAMBDA clist :
                     IF clist.exc # "none" THEN RaiseMatcher(clist.exc)
                     ELSE OkMatcher([cls |-> cls, string |-> string, name |-> Strip(m.name),
                                     key |-> Lower(Strip(m.name)), parts |-> clist.val]))))

\* Python's "not r" on the outcome of a comparison
PyNot(r) == IF r.exc # "none" THEN r ELSE OkBool(~r.val)

\* _match_at_front without the test of the character after the prefix
match_at_front_AnyPrefix(x, y) ==
    Let1(Version__eq__(x, y), LAMBDA e :
        IF e.exc # "none" THEN e
        ELSE IF e.val THEN OkBool(TRUE)
        ELSE OkBool(StartsWith(x.string, y.string)))

\* _match_at_front(x, y); x[n] raises IndexError when n = len(x)
match_at_front(x, y) ==
    Let1(Version__eq__(x, y), LAMBDA e :
        IF e.exc # "none" THEN e
        ELSE IF e.val THEN OkBool(TRUE)
        ELSE IF ~StartsWith(x.string, y.string) THEN OkBool(FALSE)
        ELSE IF Len(y.string) >= Len(x.string) THEN RaiseBool("IndexError")
        ELSE OkBool(CharAt(x.string, Len(y.string) + 1) = "."))

\* Matcher._operators[operator](x, y)
Matcher_operators(operator, x, y, python) ==
    IF operator = "<" THEN Version__lt__(x, y, python)
    ELSE IF operator = ">" THEN Version__gt__(x, y, python)
    ELSE IF operator = "<=" THEN PyOr(Version__eq__(x, y), Version__lt__(x, y, python))
    ELSE IF operator = ">=" THEN PyOr(Version__eq__(x, y), Version__gt__(x, y, python))
    ELSE IF operator = "==" THEN Version__eq__(x, y)
    ELSE Version__ne__(x, y)

\* NormalizedMatcher._operators with "<=" and ">=" left as in Matcher
NormalizedMatcher_operators_StrictBounds(operator, x, y, python) ==
    IF operator = "==" THEN match_at_front(x, y)
    ELSE IF operator = "!=" THEN PyNot(match_at_front(x, y))
    ELSE Matcher_operators(operator, x, y, python)

\* NormalizedMatcher._operators[operator](x, y)
NormalizedMatcher_operators(operator, x, y, python) ==
    IF operator = "<=" THEN PyOr(match_at_front(x, y), Version__lt__(x, y, python))
    ELSE IF operator = ">=" THEN PyOr(match_at_front(x, y), Version__gt__(x, y, python))
    ELSE IF operator = "==" THEN match_at_front(x, y)
    ELSE IF operator = "!=" THEN PyNot(match_at_front(x, y))
    ELSE Matcher_operators(operator, x, y, python)

\* self._operators of a Matcher class
operators(cls, operator, x, y, python) ==
    IF cls \in {"NormalizedMatcher", "AdaptiveMatcher", "adaptive.AdaptiveMatcher"}
    THEN NormalizedMatcher_operators(operator, x, y, python)
    ELSE Matcher_operators(operator, x, y, python)

\* the loop of Matcher.match over self._parts
RECURSIVE MatchLoop(_, _, _, _)
MatchLoop(cls, parts, version, python) ==
    IF parts = <<>> THEN OkBool(TRUE)
    ELSE Let1(operators(cls, Head(parts).op, version, Head(parts).version, python), LAMBDA r :
            IF r.exc # "none" THEN r
            ELSE IF ~r.val THEN OkBool(FALSE)
            ELSE MatchLoop(cls, Tail(parts), version, python))

\* Matcher.match(version) with a Version object
Matcher_match(self, version, python) == MatchLoop(self.cls, self.parts, version, python)

\* Matcher.match(version) with a string
Matcher_match_string(self, s, python) ==
    Let1(version_class(self.cls, s, python), LAMBDA v :
        IF v.exc # "none" THEN RaiseBool(v.exc) ELSE Matcher_match(self, v.val, python))

\* exact_version without the test of the operator
exact_version_AnyOperator(self) ==
    IF Len(self.parts) = 1 THEN self.parts[1].version ELSE None

\* Matcher.exact_version
exact_version(self) ==
    IF Len(self.parts) = 1 /\ self.parts[1].op = "==" THEN self.parts[1].version ELSE None

\* Matcher._check_compatible: TRUE when it does not raise
Matcher_check_compatible(self, other) == self.cls = other.cls /\ self.name = other.name

\* self._parts == other._parts: tuples of (operator, Version) pairs, compared
\* item by item up to the first pair that differs, then by length
RECURSIVE PartsEq(_, _)
PartsEq(a, b) ==
    IF a = <<>> \/ b = <<>> THEN OkBool(a = <<>> /\ b = <<>>)
    ELSE IF Head(a).op # Head(b).op THEN OkBool(FALSE)
    ELSE Let1(Version__eq__(Head(a).version, Head(b).version), LAMBDA e :
            IF e.exc # "none" THEN e
            ELSE IF ~e.val THEN OkBool(FALSE)
            ELSE PartsEq(Tail(a), Tail(b)))

Matcher__eq__(self, other) ==
    IF ~Matcher_check_compatible(self, other) THEN RaiseBool("TypeError")
    ELSE IF self.key # other.key THEN OkBool(FALSE)
    ELSE PartsEq(self.parts, other.parts)

Matcher__ne__(self, other) == PyNot(Matcher__eq__(self, other))

\* what hash(self.key) + hash(self._parts) is computed from
Matcher__hash__(self) ==
    PyTuple(<<PyStr(self.key),
              PyTuple([i \in 1..Len(self.parts) |->
                          PyTuple(<<PyStr(self.parts[i].op), Version__hash__(self.parts[i].version)>>)])>>)

(***************************************************************************)
(* The inputs: version strings                                             *)
(***************************************************************************)

\* most trailing ".0" components appended to a release
MaxZeros == 1
\* largest serial number of a pre-, post- or dev-release segment
MaxSerial == 1

PythonVersions == {2, 3}

Serials == 0..MaxSerial

RECURSIVE Zeros(_)
Zeros(k) == IF k = 0 THEN "" ELSE ".0" \o Zeros(k - 1)

Bases == {"0.0", "1.0"}

Releases == {base \o Zeros(k) : base \in Bases, k \in 0..MaxZeros}

PreTags == {"a", "b", "c"}

Suffixes ==
    {""}
    \cup {".dev" \o IntToStr(n) : n \in Serials}
    \cup {tg \o IntToStr(n) : tg \in PreTags, n \in Serials}
    \cup {".post" \o IntToStr(n) : n \in Serials}
    \cup {".post" \o IntToStr(n) \o ".dev" \o IntToStr(k) : n \in Serials, k \in Serials}

NormalizedStrings == {r \o s : r \in Releases, s \in Suffixes}

\* strings given to every scheme: valid in several of them, in one, in none
OtherStrings == {"1.0", " 1.0.0 ", "1.2.3a1", "1.2.3-a.1+x", "1.0.0-a.1", "foo"}

VersionClasses ==
    {"NormalizedVersion", "LegacyVersion", "SemanticVersion", "AdaptiveVersion",
     "adaptive.AdaptiveVersion"}

\* semantic versions: prereleases that extend one another, numeric
\* identifiers of one to nine digits, build metadata
NumericIdentifiers == {"1", "2", "10", "20000000", "100000000"}
IdentifierPrefixes == {"1.0.0-alpha.", "1.0.0+b."}

SemanticStrings ==
    {"1.0.0", "1.0.1", "1.0.0-alpha", "1.0.0-alpha.beta", "1.0.0-rc.1", "1.0.0-alpha+x"}
    \cup {prefix \o n : prefix \in IdentifierPrefixes, n \in NumericIdentifiers}

\* legacy versions: trailing zeros, numbers of one to eight digits, words,
\* dashes before words and before numbers, no digits at all
LegacyStrings ==
    {"1.0.0", "1.0.0.0", "1.0.1", "2", "10", "00000002", "99999999", "1.0a", "1.0a1", "1.0dev",
     "1.0.dev", "1.0rc1", "1.0-a", "1-a", "1--a", "1-0a", "1.0-1", "1-", "a", "dev", ""}

\* legacy versions that differ only in their trailing zero components
LegacyStems == {"1", "2.5"}
LegacyTails == {"", "a1", "-a", "dev"}
LegacyZeroStrings(stem, tail) == {stem \o Zeros(k) \o tail : k \in 0..(MaxZeros + 1)}

\* strings for each branch of the adaptive parse
AdaptiveStrings == {"1.0.0-alpha", "1.0.0-alpha.1", " 1.0-beta2 ", "v1.0", "1.0-final", "1.0.0+x", ""}

VersionStrings(cls) ==
    OtherStrings
    \cup (IF cls = "NormalizedVersion" THEN NormalizedStrings
          ELSE IF cls = "SemanticVersion" THEN SemanticStrings
          ELSE IF cls = "LegacyVersion"
          THEN LegacyStrings
               \cup UNION {LegacyZeroStrings(stem, tail) : stem \in LegacyStems, tail \in LegacyTails}
          ELSE AdaptiveStrings)

(***************************************************************************)
(* The inputs: requirement strings and candidate versions                  *)
(***************************************************************************)

\* most constraints in the generated lists of constraints
MaxConstraints == 2

ConstraintOperators == {"<", "<=", ">", ">=", "==", "!=", ""}

BoundStrings == {"1.0", "1.0.0", "2.0", "2.5", "2.50"}

\* one constraint, the operator written or left out
SingleRequirements == {"foo (" \o op \o v \o ")" : op \in ConstraintOperators, v \in BoundStrings}

ListedConstraints == {">=1.0", "<2.0", "!=1.5"}

RECURSIVE ConstraintLists(_)
ConstraintLists(k) ==
    IF k = 1 THEN ListedConstraints
    ELSE {c \o "," \o l : c \in ListedConstraints, l \in ConstraintLists(k - 1)}

ListRequirements ==
    UNION {{"foo (" \o l \o ")" : l \in ConstraintLists(k)} : k \in 2..MaxConstraints}

\* no constraints, other names, other spellings of the name, blanks
SpelledRequirements ==
    {"foo", "Foo", "foo ()", "Foo (>=1.0)", "bar (>=1.0)", " foo(>= 1.0 , < 2.0) ", "foo (== 1.0)"}

\* text after the name that is no parenthesised list, text after the list,
\* a segment that is no constraint, a version that does not parse, no name
MalformedRequirements ==
    {"foo >=1.0", "foo (>=1.0", "foo (>=1.0) junk", "foo (>=1.0,)", "foo (>= 1.0 x)",
     "foo (>=junk)", "foo (~1.0)", "(>=1.0)", ""}

\* requirements given to the matchers of the other schemes
OtherRequirements ==
    {"foo", "foo (>=1.0)", "Foo (>=1.0)", "foo (>=1.0,<2.0)", "foo (<2.0,>=1.0)", "foo (==1.0)",
     "foo (>=1.0.0)", "foo (<1.0,>1.2.3-a.1+x)", "foo (>1.2.3-a.1+x,<1.0)", "foo >=1.0"}

Requirements(cls) ==
    IF cls = "NormalizedMatcher"
    THEN SingleRequirements \cup ListRequirements \cup SpelledRequirements \cup MalformedRequirements
    ELSE OtherRequirements

CandidateStrings ==
    {"0.9", "1.0", "1.0.0", "1.5", "2.0", "2.5", "2.5.4", "2.50", "1.0a1", "1.0.post1",
     "1.0.dev1", "1.2.3a1", "1.2.3-a.1+x", "junk"}

\* cls(s): the call of a version class
NewVersion(cls, s, python) ==
    IF cls = "NormalizedVersion" THEN NormalizedVersion(s)
    ELSE IF cls = "LegacyVersion" THEN LegacyVersion(s)
    ELSE IF cls = "SemanticVersion" THEN SemanticVersion(s)
    ELSE IF cls = "AdaptiveVersion" THEN AdaptiveVersion(s)
    ELSE AdaptiveVersion__new__(s, python)

(***************************************************************************)
(* __init__.py: the registry of schemes                                    *)
(***************************************************************************)

\* no scheme object
NoScheme == [id |-> 0, version_class |-> "", matcher |-> "", suggest |-> ""]

\* _SCHEMES once the module is loaded: four VersionScheme objects, told
\* apart by id, each with its version class, its matcher class and its
\* suggest; 'default' is bound to the object of 'adaptive'
_SCHEMES ==
    Let1([id |-> 4, version_class |-> "AdaptiveVersion", matcher |-> "AdaptiveMatcher",
          suggest |-> "suggest_adaptive_version"], LAMBDA adaptive :
        [name \in {"normalized", "legacy", "semantic", "adaptive", "default"} |->
            IF name = "normalized"
            THEN [id |-> 1, version_class |-> "NormalizedVersion", matcher |-> "NormalizedMatcher",
                  suggest |-> "NormalizedVersionScheme.suggest"]
            ELSE IF name = "legacy"
            THEN [id |-> 2, version_class |-> "LegacyVersion", matcher |-> "LegacyMatcher",
                  suggest |-> "VersionScheme.suggest"]
            ELSE IF name = "semantic"
            THEN [id |-> 3, version_class |-> "SemanticVersion", matcher |-> "SemanticMatcher",
                  suggest |-> "suggest_semantic_version"]
            ELSE adaptive])

\* scheme.suggest(s): the method of the class, or the suggester given to
\* VersionScheme.__init__
VersionScheme_suggest(self, s) ==
    IF self.suggest = "NormalizedVersionScheme.suggest" THEN NormalizedSuggest(s)
    ELSE IF self.suggest = "suggest_semantic_version" THEN suggest_semantic_version(s)
    ELSE IF self.suggest = "suggest_adaptive_version" THEN suggest_adaptive_version(s)
    ELSE SomeStr(s)

(***************************************************************************)
(* The inputs: scheme names and the strings given to suggest               *)
(***************************************************************************)

SchemeNames == {"normalized", "legacy", "semantic", "adaptive", "default", "pep386", "Default", ""}

SuggestReleases == {"1.0", "1.0.0", "v1.0", "1", "1.2.3.4", ""}

SuggestSeparators == {"", "-", " ", "+", "."}

SuggestWords ==
    {"", "alpha", "alfa", "al,fa", "pre*alpha", "(beta)", "b2", "rc1", "dev", "dev3", "final",
     "post1", "x", "1"}

SuggestStrings ==
    {r \o sep \o w : r \in SuggestReleases, sep \in SuggestSeparators, w \in SuggestWords}
    \cup {"foo", " 1.0 ", "1.0a1", "1.0.dev1", "1.2.3-a.1+x", "1.0.0-alpha.1", "(1.0)", "..", "#"}

(***************************************************************************)
(* State: the interpreter, two Versions, the class that was called to      *)
(* build each, two Matchers, the registry, the scheme last got from it,    *)
(* and the outcome of the last call                                        *)
(***************************************************************************)

VARIABLES python, x, y, made, matcher, other, schemes, scheme, result

vars == <<python, x, y, made, matcher, other, schemes, scheme, result>>

\* the outcome of the call op(arg): the exception raised ("none" when it
\* returned), the boolean returned, the hash returned, the Version returned,
\* the str or None returned
Result(op, arg, exc, val, hash) ==
    [op |-> op, arg |-> arg, exc |-> exc, val |-> val, hash |-> hash, version |-> None,
     text |-> NoneStr]

NoHash == PyTuple(<<>>)

BoolResult(op, r) == Result(op, "", r.exc, r.val, NoHash)

Init ==
    /\ python \in PythonVersions
    /\ x = None
    /\ y = None
    /\ made = [x |-> "", y |-> ""]
    /\ matcher = NoMatcher
    /\ other = NoMatcher
    /\ schemes = _SCHEMES
    /\ scheme = NoScheme
    /\ result = Result("", "", "none", FALSE, NoHash)

\* x = cls(s), the first call
ConstructX ==
    /\ x = None /\ y = None /\ matcher = NoMatcher /\ result.op = ""
    /\ \E cls \in VersionClasses : \E s \in VersionStrings(cls) :
          \E r \in {NewVersion(cls, s, python)} :
             /\ x' = r.val
             /\ made' = [made EXCEPT !.x = IF r.exc = "none" THEN cls ELSE ""]
             /\ result' = Result(cls, s, r.exc, FALSE, NoHash)
    /\ UNCHANGED <<python, y, matcher, other, schemes, scheme>>

\* y = cls(s), the call after x was built: any string of the class of x, and
\* the strings given to every class for the other classes
ConstructY ==
    /\ x # None /\ y = None /\ matcher = NoMatcher /\ result.op \in VersionClasses /\ result.exc = "none"
    /\ \E cls \in VersionClasses : \E s \in (IF cls = made.x THEN VersionStrings(cls) ELSE OtherStrings) :
          \E r \in {NewVersion(cls, s, python)} :
             /\ y' = r.val
             /\ made' = [made EXCEPT !.y = IF r.exc = "none" THEN cls ELSE ""]
             /\ result' = Result(cls, s, r.exc, FALSE, NoHash)
    /\ UNCHANGED <<python, x, matcher, other, schemes, scheme>>

\* x == y
Eq ==
    /\ x # None /\ y # None /\ matcher = NoMatcher
    /\ result' = BoolResult("==", Version__eq__(x, y))
    /\ UNCHANGED <<python, x, y, made, matcher, other, schemes, scheme>>

\* x != y
Ne ==
    /\ x # None /\ y # None /\ matcher = NoMatcher
    /\ result' = BoolResult("!=", Version__ne__(x, y))
    /\ UNCHANGED <<python, x, y, made, matcher, other, schemes, scheme>>

\* x < y
Lt ==
    /\ x # None /\ y # None /\ matcher = NoMatcher
    /\ result' = BoolResult("<", Version__lt__(x, y, python))
    /\ UNCHANGED <<python, x, y, made, matcher, other, schemes, scheme>>

\* x > y
Gt ==
    /\ x # None /\ y # None /\ matcher = NoMatcher
    /\ result' = BoolResult(">", Version__gt__(x, y, python))
    /\ UNCHANGED <<python, x, y, made, matcher, other, schemes, scheme>>

\* x <= y
Le ==
    /\ x # None /\ y # None /\ matcher = NoMatcher
    /\ result' = BoolResult("<=", Version__le__(x, y, python))
    /\ UNCHANGED <<python, x, y, made, matcher, other, schemes, scheme>>

\* x >= y
Ge ==
    /\ x # None /\ y # None /\ matcher = NoMatcher
    /\ result' = BoolResult(">=", Version__ge__(x, y, python))
    /\ UNCHANGED <<python, x, y, made, matcher, other, schemes, scheme>>

\* hash(x)
Hash ==
    /\ x # None /\ matcher = NoMatcher
    /\ result' = Result("hash", "", "none", FALSE, Version__hash__(x))
    /\ UNCHANGED <<python, x, y, made, matcher, other, schemes, scheme>>

\* x.is_prerelease, read once x is built
IsPrerelease ==
    /\ x # None /\ y = None /\ matcher = NoMatcher /\ result.op \in VersionClasses
    /\ result' = Result("is_prerelease", result.arg, "none", is_prerelease(x), NoHash)
    /\ UNCHANGED <<python, x, y, made, matcher, other, schemes, scheme>>

Next == ConstructX \/ ConstructY \/ Eq \/ Ne \/ Lt \/ Gt \/ Le \/ Ge \/ Hash \/ IsPrerelease

Spec == Init /\ [][Next]_vars

(***************************************************************************)
(* The calls on Matchers                                                   *)
(***************************************************************************)

\* matcher = cls(s), the first call
NewMatcher ==
    /\ matcher = NoMatcher /\ x = None /\ result.op = ""
    /\ \E cls \in MatcherClasses : \E s \in Requirements(cls) :
          \E r \in {Matcher__init__(cls, s, python)} :
             /\ matcher' = r.val
             /\ result' = Result(cls, s, r.exc, FALSE, NoHash)
    /\ UNCHANGED <<python, x, y, made, other, schemes, scheme>>

\* other = cls(s), the call after matcher was built
NewOther ==
    /\ matcher # NoMatcher /\ other = NoMatcher /\ x = None
    /\ result.op \in MatcherClasses /\ result.exc = "none"
    /\ \E cls \in MatcherClasses : \E s \in Requirements(cls) :
          \E r \in {Matcher__init__(cls, s, python)} :
             /\ other' = r.val
             /\ result' = Result(cls, s, r.exc, FALSE, NoHash)
    /\ UNCHANGED <<python, x, y, made, matcher, schemes, scheme>>

\* x = cls(s), the candidate version, built after matcher
Candidate ==
    /\ matcher # NoMatcher /\ other = NoMatcher /\ x = None
    /\ result.op \in MatcherClasses /\ result.exc = "none"
    /\ \E cls \in VersionClasses : \E s \in CandidateStrings :
          \E r \in {NewVersion(cls, s, python)} :
             /\ x' = r.val
             /\ made' = [made EXCEPT !.x = IF r.exc = "none" THEN cls ELSE ""]
             /\ result' = Result(cls, s, r.exc, FALSE, NoHash)
    /\ UNCHANGED <<python, y, matcher, other, schemes, scheme>>

\* matcher.match(x)
Match ==
    /\ matcher # NoMatcher /\ x # None
    /\ \E r \in {Matcher_match(matcher, x, python)} :
          result' = Result("match", "", r.exc, r.val, NoHash)
    /\ UNCHANGED <<python, x, y, made, matcher, other, schemes, scheme>>

\* matcher.match(s) with a string: str(x) once x is built, any string before
MatchString ==
    /\ matcher # NoMatcher /\ other = NoMatcher
    /\ x = None => result.op \in MatcherClasses
    /\ x # None => result.op = "match"
    /\ \E s \in IF x = None THEN CandidateStrings ELSE {x.string} :
          \E r \in {Matcher_match_string(matcher, s, python)} :
             result' = Result("match_string", s, r.exc, r.val, NoHash)
    /\ UNCHANGED <<python, x, y, made, matcher, other, schemes, scheme>>

\* matcher.exact_version
ExactVersion ==
    /\ matcher # NoMatcher /\ other = NoMatcher /\ x = None
    /\ result.op \in MatcherClasses
    /\ result' = [Result("exact_version", "", "none", FALSE, NoHash)
                     EXCEPT !.version = exact_version(matcher)]
    /\ UNCHANGED <<python, x, y, made, matcher, other, schemes, scheme>>

\* matcher == other
MatcherEq ==
    /\ matcher # NoMatcher /\ other # NoMatcher
    /\ result' = BoolResult("==", Matcher__eq__(matcher, other))
    /\ UNCHANGED <<python, x, y, made, matcher, other, schemes, scheme>>

\* matcher != other
MatcherNe ==
    /\ matcher # NoMatcher /\ other # NoMatcher
    /\ result' = BoolResult("!=", Matcher__ne__(matcher, other))
    /\ UNCHANGED <<python, x, y, made, matcher, other, schemes, scheme>>

\* hash(matcher) == hash(other), hash(matcher) kept
MatcherHash ==
    /\ matcher # NoMatcher /\ other # NoMatcher
    /\ result' = Result("hash", "", "none", Matcher__hash__(matcher) = Matcher__hash__(other),
                        Matcher__hash__(matcher))
    /\ UNCHANGED <<python, x, y, made, matcher, other, schemes, scheme>>

MatcherNext ==
    NewMatcher \/ NewOther \/ Candidate \/ Match \/ MatchString \/ ExactVersion
        \/ MatcherEq \/ MatcherNe \/ MatcherHash

MatcherSpec == Init /\ [][MatcherNext]_vars

(***************************************************************************)
(* Calls on the registry and on a scheme it returned                       *)
(***************************************************************************)

\* get_scheme without the test of the name: an unknown name gets the default
get_scheme_AnyName(name) ==
    [exc |-> "none", val |-> IF name \in DOMAIN schemes THEN schemes[name] ELSE schemes["default"]]

\* get_scheme (__init__.py)
get_scheme(name) ==
    IF name \notin DOMAIN schemes THEN [exc |-> "ValueError", val |-> NoScheme]
    ELSE [exc |-> "none", val |-> schemes[name]]

\* the str the last call of suggest returned, if it returned one
Suggested == IF result.op = "suggest" /\ ~result.text.none THEN {result.text.s} ELSE {}

\* the strings given to a scheme: one of the inputs once it was got from the
\* registry, and then what its suggest returned
SchemeInputs == IF result.op = "get_scheme" THEN SuggestStrings ELSE Suggested

\* scheme = get_scheme(name)
GetScheme ==
    /\ x = None /\ matcher = NoMatcher
    /\ \E name \in SchemeNames : \E r \in {get_scheme(name)} :
          /\ scheme' = IF r.exc = "none" THEN r.val ELSE scheme
          /\ result' = Result("get_scheme", name, r.exc, FALSE, NoHash)
    /\ UNCHANGED <<python, x, y, made, matcher, other, schemes>>

\* scheme.suggest(s); the result records whether s is what the last suggest
\* returned
SchemeSuggest ==
    /\ scheme # NoScheme
    /\ \E s \in SchemeInputs :
          result' = [Result("suggest", s, "none", s \in Suggested, NoHash)
                        EXCEPT !.text = VersionScheme_suggest(scheme, s)]
    /\ UNCHANGED <<python, x, y, made, matcher, other, schemes, scheme>>

\* scheme(s): VersionScheme.__call__, on the same strings
SchemeCall ==
    /\ scheme # NoScheme
    /\ \E s \in SchemeInputs :
          \E r \in {NewVersion(scheme.version_class, s, python)} :
             result' = [Result("call", s, r.exc, s \in Suggested, NoHash)
                           EXCEPT !.version = r.val]
    /\ UNCHANGED <<python, x, y, made, matcher, other, schemes, scheme>>

\* VersionScheme.is_valid_version: ValueError is caught, any other exception
\* goes to the caller
is_valid_version(self, s) ==
    Let1(NewVersion(self.version_class, s, python), LAMBDA r :
        IF r.exc = "none" THEN OkBool(TRUE)
        ELSE IF r.exc = "ValueError" THEN OkBool(FALSE)
        ELSE RaiseBool(r.exc))

\* scheme.is_valid_version(s), on the same strings
IsValidVersion ==
    /\ scheme # NoScheme
    /\ \E s \in SchemeInputs :
          \E r \in {is_valid_version(scheme, s)} :
             result' = Result("is_valid_version", s, r.exc, r.val, NoHash)
    /\ UNCHANGED <<python, x, y, made, matcher, other, schemes, scheme>>

\* scheme.matcher(requirement).match(candidate)
SchemeMatch ==
    /\ scheme # NoScheme /\ result.op = "get_scheme"
    /\ \E requirement \in OtherRequirements : \E candidate \in CandidateStrings :
          \E m \in {Matcher__init__(scheme.matcher, requirement, python)} :
             \E r \in {IF m.exc # "none" THEN RaiseBool(m.exc)
                       ELSE Matcher_match_string(m.val, candidate, python)} :
                result' = Result("match", requirement, r.exc, r.val, NoHash)
    /\ UNCHANGED <<python, x, y, made, matcher, other, schemes, scheme>>

SchemeNext == GetScheme \/ SchemeSuggest \/ SchemeCall \/ IsValidVersion \/ SchemeMatch

SchemeSpec == Init /\ [][SchemeNext]_vars

(***************************************************************************)
(* Properties                                                              *)
(***************************************************************************)

CompareOps == {"==", "!=", "<", ">", "<=", ">="}

\* the scheme of the class that was called
SchemeOf(cls) ==
    IF cls = "NormalizedVersion" THEN "normalized"
    ELSE IF cls = "LegacyVersion" THEN "legacy"
    ELSE IF cls = "SemanticVersion" THEN "semantic"
    ELSE "adaptive"

BothBuilt == x # None /\ y # None

\* the position of a suffix in the chain dev < a < b < c < final < post
DevSuffixes == {".dev" \o IntToStr(n) : n \in Serials}
PostSuffixes == {".post" \o IntToStr(n) : n \in Serials}
PreSuffixes(tg) == {tg \o IntToStr(n) : n \in Serials}

Rank(suffix) ==
    IF suffix \in DevSuffixes THEN 1
    ELSE IF suffix \in PreSuffixes("a") THEN 2
    ELSE IF suffix \in PreSuffixes("b") THEN 3
    ELSE IF suffix \in PreSuffixes("c") THEN 4
    ELSE IF suffix = "" THEN 5
    ELSE IF suffix \in PostSuffixes THEN 6
    ELSE 0

\* the outcome of the comparison in result says "strictly below"
SaysBelow ==
    /\ result.exc = "none"
    /\ result.op \in {"<", "<=", "!="} => result.val
    /\ result.op \in {">", ">=", "=="} => ~result.val

\* the outcome of the comparison in result says "strictly above"
SaysAbove ==
    /\ result.exc = "none"
    /\ result.op \in {">", ">=", "!="} => result.val
    /\ result.op \in {"<", "<=", "=="} => ~result.val

\* x and y are normalized versions R \o sx and R \o sy of one release R
SameRelease(R, sx, sy) ==
    /\ made.x = "NormalizedVersion" /\ made.y = "NormalizedVersion"
    /\ x.string = R \o sx /\ y.string = R \o sy

\* C1: for every release R and all serials, R.dev<n> < Ra<m> < Rb<m> < Rc<m>
\* < R < R.post<n> in the normalized scheme, and R.post<n>.dev<m> < R.post<n>:
\* every comparison of two such versions answers accordingly, in both
\* directions.
C1_NormalizedChain ==
    (BothBuilt /\ result.op \in CompareOps) =>
        \A R \in Releases :
            (StartsWith(x.string, R) /\ StartsWith(y.string, R)) =>
                LET sx == From(x.string, Len(R))
                    sy == From(y.string, Len(R))
                IN /\ (SameRelease(R, sx, sy) /\ Rank(sx) > 0 /\ Rank(sy) > 0) =>
                        /\ Rank(sx) < Rank(sy) => SaysBelow
                        /\ Rank(sx) > Rank(sy) => SaysAbove
                   /\ (SameRelease(R, sx, sy) /\ sy \in PostSuffixes
                          /\ \E d \in DevSuffixes : sx = sy \o d) => SaysBelow
                   /\ (SameRelease(R, sx, sy) /\ sx \in PostSuffixes
                          /\ \E d \in DevSuffixes : sy = sx \o d) => SaysAbove

\* C1 witness: 1.0.dev1 < 1.0a0 was evaluated and answered True
C1_Witness ==
    /\ made.x = "NormalizedVersion" /\ x.string = "1.0.dev1"
    /\ made.y = "NormalizedVersion" /\ y.string = "1.0a0"
    /\ result.op = "<" /\ result.exc = "none" /\ result.val

\* x and y are normalized versions of one base release and one suffix whose
\* texts differ at most in the number of trailing ".0" components
TrailingZeroVariants ==
    /\ made.x = "NormalizedVersion" /\ made.y = "NormalizedVersion"
    /\ \E base \in Bases : \E k1 \in 0..MaxZeros : \E k2 \in 0..MaxZeros :
          /\ StartsWith(x.string, base \o Zeros(k1))
          /\ StartsWith(y.string, base \o Zeros(k2))
          /\ From(x.string, Len(base \o Zeros(k1))) = From(y.string, Len(base \o Zeros(k2)))
          /\ From(x.string, Len(base \o Zeros(k1))) \in Suffixes

\* C2: normalized versions that differ only in trailing zero release
\* components have the same key, compare equal and hash alike; the release
\* of a key always keeps at least one component.
C2_TrailingZeros ==
    /\ made.x = "NormalizedVersion" => Len(x.parts.items[1].items) >= 1
    /\ (BothBuilt /\ TrailingZeroVariants) =>
          /\ x.parts = y.parts
          /\ result.op \in CompareOps =>
                /\ result.exc = "none"
                /\ result.val <=> result.op \in {"==", "<=", ">="}
          /\ result.op = "hash" => result.hash = Version__hash__(y)

\* C2 witness: hash("0.0") was taken next to "0.0.0": different texts, one
\* key with the single release component 0
C2_Witness ==
    /\ made.x = "NormalizedVersion" /\ x.string = "0.0"
    /\ made.y = "NormalizedVersion" /\ y.string = "0.0.0"
    /\ result.op = "hash" /\ result.hash = Version__hash__(y)
    /\ x.parts.items[1] = PyInts(<<0>>)

\* C3: comparing two Versions built by different schemes always raises
\* TypeError, whatever the operator and whatever the strings.
C3_CrossSchemeRaises ==
    (BothBuilt /\ result.op \in CompareOps /\ SchemeOf(made.x) # SchemeOf(made.y)) =>
        result.exc = "TypeError"

\* exactly one of the three booleans
ExactlyOne(p, q, r) == (p /\ ~q /\ ~r) \/ (~p /\ q /\ ~r) \/ (~p /\ ~q /\ r)

\* C4: two Versions built by the same class from strings it accepts compare
\* without an exception, and exactly one of x < y, x == y, x > y holds.
C4_TotalWithinScheme ==
    (BothBuilt /\ result.op \in CompareOps /\ made.x = made.y) =>
        LET lt == Version__lt__(x, y, python)
            eq == Version__eq__(x, y)
            gt == Version__gt__(x, y, python)
        IN /\ result.exc = "none"
           /\ lt.exc = "none" /\ eq.exc = "none" /\ gt.exc = "none"
           /\ ExactlyOne(lt.val, eq.val, gt.val)


(***************************************************************************)
(* Properties of the Matchers                                              *)
(***************************************************************************)

\* the version class of the scheme of a Matcher class
MatcherVersionClass(cls) ==
    IF cls = "NormalizedMatcher" THEN "NormalizedVersion"
    ELSE IF cls = "LegacyMatcher" THEN "LegacyVersion"
    ELSE IF cls = "SemanticMatcher" THEN "SemanticVersion"
    ELSE IF cls = "AdaptiveMatcher" THEN "AdaptiveVersion"
    ELSE "adaptive.AdaptiveVersion"

\* matcher.match was called on the candidate x, a Version of the matcher's scheme
Matched ==
    /\ result.op = "match"
    /\ matcher # NoMatcher /\ x # None
    /\ made.x = MatcherVersionClass(matcher.cls)

\* a NormalizedMatcher with the one constraint (op, bound) was matched against x
NormalizedMatched(ops) ==
    /\ Matched
    /\ matcher.cls = "NormalizedMatcher"
    /\ Len(matcher.parts) = 1
    /\ matcher.parts[1].op \in ops

\* the candidate is the bound, or its text is the bound's text followed by "."
PrefixMatches(X, Y) == X.parts = Y.parts \/ StartsWith(X.string, Y.string \o ".")

\* the call in result returned b
Returned(b) == result.exc = "none" /\ result.val = b

\* matcher was built from requirement and matched against the candidate written as candidate
MatchedExample(requirement, candidate) ==
    Matched /\ matcher.string = requirement /\ x.string = candidate

\* C5: in NormalizedMatcher a candidate X satisfies "== Y" iff X and Y are
\* equal Versions or str(X) is str(Y) followed by ".", without raising, and
\* "!= Y" is the negation; "==2.5" matches 2.5.4 and not 2.50, "==2.50" does
\* not match 2.5.
C5_PrefixEquality ==
    /\ NormalizedMatched({"=="}) => Returned(PrefixMatches(x, matcher.parts[1].version))
    /\ NormalizedMatched({"!="}) => Returned(~PrefixMatches(x, matcher.parts[1].version))
    /\ MatchedExample("foo (==2.5)", "2.5.4") => Returned(TRUE)
    /\ MatchedExample("foo (==2.5)", "2.50") => Returned(FALSE)
    /\ MatchedExample("foo (==2.50)", "2.5") => Returned(FALSE)

C5_Witness ==
    /\ MatchedExample("foo (==2.5)", "2.5.4")
    /\ matcher.cls = "NormalizedMatcher"
    /\ Returned(TRUE)

\* X is strictly below Y in key order
KeyBelow(X, Y) == Version__lt__(X, Y, python) = OkBool(TRUE)

\* C6: in NormalizedMatcher "<= Y" holds for X iff X prefix-matches Y or
\* X < Y, ">= Y" iff X prefix-matches Y or X > Y, so 2.5.4 satisfies "<=2.5"
\* although 2.5.4 > 2.5; "<" and ">" are the strict key order.
C6_RelaxedBounds ==
    /\ NormalizedMatched({"<="}) =>
          Returned(PrefixMatches(x, matcher.parts[1].version) \/ KeyBelow(x, matcher.parts[1].version))
    /\ NormalizedMatched({">="}) =>
          Returned(PrefixMatches(x, matcher.parts[1].version) \/ KeyBelow(matcher.parts[1].version, x))
    /\ NormalizedMatched({"<"}) => Returned(KeyBelow(x, matcher.parts[1].version))
    /\ NormalizedMatched({">"}) => Returned(KeyBelow(matcher.parts[1].version, x))
    /\ MatchedExample("foo (<=2.5)", "2.5.4") =>
          Returned(TRUE) /\ KeyBelow(matcher.parts[1].version, x)
    /\ MatchedExample("foo (<2.5)", "2.5.4") => Returned(FALSE)
    /\ MatchedExample("foo (>2.5)", "2.5.4") => Returned(TRUE)

C6_Witness ==
    /\ MatchedExample("foo (<=2.5)", "2.5.4")
    /\ matcher.cls = "NormalizedMatcher"
    /\ Returned(TRUE)
    /\ KeyBelow(matcher.parts[1].version, x)

\* the constraint i of matcher holds for the candidate X
Holds(i, X) ==
    operators(matcher.cls, matcher.parts[i].op, X, matcher.parts[i].version, python) = OkBool(TRUE)

\* the constraints of matcher in every order
Reorderings ==
    {[i \in 1..Len(matcher.parts) |-> matcher.parts[p[i]]] : p \in Permutations(1..Len(matcher.parts))}

\* str(x) was passed to matcher.match after x itself
MatchedString ==
    /\ result.op = "match_string"
    /\ matcher # NoMatcher /\ x # None
    /\ made.x = MatcherVersionClass(matcher.cls)

\* C7: Matcher.match(candidate) returns true iff every constraint holds for
\* the candidate (a matcher with no constraints matches every valid version),
\* gives the same result for the raw string and for the Version built from it,
\* and does not depend on the order of the constraints; "foo (>=1.0,<2.0)"
\* matches 1.5 and rejects 2.0 and 0.9.
C7_MatchIsConjunction ==
    /\ Matched => Returned(\A i \in 1..Len(matcher.parts) : Holds(i, x))
    /\ Matched /\ matcher.parts = <<>> => Returned(TRUE)
    /\ MatchedString =>
          \E r \in {Matcher_match(matcher, x, python)} : result.exc = r.exc /\ result.val = r.val
    /\ Matched =>
          \A parts \in Reorderings :
             \E r \in {MatchLoop(matcher.cls, parts, x, python)} :
                result.exc = r.exc /\ result.val = r.val
    /\ MatchedExample("foo (>=1.0,<2.0)", "1.5") => Returned(TRUE)
    /\ MatchedExample("foo (>=1.0,<2.0)", "2.0") => Returned(FALSE)
    /\ MatchedExample("foo (>=1.0,<2.0)", "0.9") => Returned(FALSE)

\* matcher.exact_version was read
ExactRead == result.op = "exact_version" /\ matcher # NoMatcher

\* C8: Matcher.exact_version is the bound Version iff there is exactly one
\* constraint and its operator is "==", written or defaulted; for any other
\* single operator, no constraint, or two or more constraints it is none.
C8_ExactVersion ==
    /\ ExactRead /\ Len(matcher.parts) = 1 /\ matcher.parts[1].op = "==" =>
          result.version = matcher.parts[1].version /\ result.version # None
    /\ ExactRead /\ ~(Len(matcher.parts) = 1 /\ matcher.parts[1].op = "==") =>
          result.version = None
    /\ \A v \in BoundStrings :
          /\ ExactRead /\ matcher.string \in {"foo (==" \o v \o ")", "foo (" \o v \o ")"} =>
                result.version # None /\ result.version.string = v
          /\ \A op \in ConstraintOperators \ {"==", ""} :
                ExactRead /\ matcher.string = "foo (" \o op \o v \o ")" => result.version = None
    /\ ExactRead /\ matcher.string \in {"foo", "foo (>=1.0,<2.0)"} => result.version = None

C8_Witness ==
    /\ ExactRead
    /\ matcher.string = "foo (1.0)"
    /\ result.version # None /\ result.version.string = "1.0"

\* the strings that are neither "name" nor "name (constraint[, constraint]*)"
\* with versions of the scheme
Rejected(cls) ==
    IF cls = "NormalizedMatcher" THEN MalformedRequirements ELSE {"foo >=1.0"}

\* cls(s) was called to build a Matcher
Built == result.op \in MatcherClasses

\* C9: constructing a Matcher fails, and yields no Matcher, whenever the
\* string is not "name" or "name (constraint[, constraint]*)": text left over
\* after the name or after the list, a segment that is no constraint, and a
\* version the scheme cannot parse are rejected.
C9_MalformedRejected ==
    /\ Built /\ result.arg \in Rejected(result.op) => result.exc # "none"
    /\ Built /\ result.exc # "none" => other = NoMatcher

\* matcher and other were compared
Compared == matcher # NoMatcher /\ other # NoMatcher /\ result.op \in {"==", "!="}

\* the same constraints in the same order
SameConstraints(a, b) ==
    /\ Len(a) = Len(b)
    /\ \A i \in 1..Len(a) : a[i].op = b[i].op /\ a[i].version.parts = b[i].version.parts

\* the scheme of a Matcher class
MatcherScheme(cls) == SchemeOf(MatcherVersionClass(cls))

\* matcher was built from a and other from b by the same class
ComparedExample(a, b) ==
    Compared /\ matcher.cls = other.cls /\ matcher.string = a /\ other.string = b

\* C10: equality of two Matchers of one scheme is case-insensitive on the
\* name and order-sensitive on the constraints: with names equal after
\* lowercasing they compare without error and are equal iff the constraint
\* lists are the same in the same order, equal matchers have equal hashes,
\* and matchers of different schemes fail with a TypeError.
C10_MatcherEquality ==
    /\ Compared /\ matcher.cls = other.cls /\ Lower(matcher.name) = Lower(other.name) =>
          Returned((result.op = "==") <=> SameConstraints(matcher.parts, other.parts))
    /\ ( /\ result.op = "hash" /\ matcher # NoMatcher /\ other # NoMatcher
         /\ matcher.cls = other.cls /\ Lower(matcher.name) = Lower(other.name)
         /\ SameConstraints(matcher.parts, other.parts) ) => result.val
    /\ Compared /\ MatcherScheme(matcher.cls) # MatcherScheme(other.cls) =>
          result.exc = "TypeError"
    /\ ComparedExample("foo (>=1.0,<2.0)", "foo (<2.0,>=1.0)") => Returned(result.op = "!=")
    /\ ComparedExample("Foo (>=1.0)", "foo (>=1.0)") => Returned(result.op = "==")

(***************************************************************************)
(* Suggestions                                                             *)
(***************************************************************************)

\* the scheme in hand is one of those that have a suggester of their own
HasSuggester ==
    scheme.suggest \in {"NormalizedVersionScheme.suggest", "suggest_semantic_version",
                        "suggest_adaptive_version"}

\* suggest was just called on the str that the suggest call before it returned
SuggestedAgain == result.op = "suggest" /\ result.val /\ HasSuggester

\* C11: in the normalized, semantic and adaptive schemes, when suggest
\* returned a str s2, suggest of s2 returns exactly s2
C11_SuggestIdempotent == SuggestedAgain => result.text = SomeStr(result.arg)

\* the str that suggest returned was just given to the scheme's parser
ParsedSuggestion == result.op = "call" /\ result.val /\ HasSuggester

\* C12: suggest of the normalized, semantic and adaptive schemes never raises;
\* what it returns is None or a str that the scheme's parser accepts; when
\* the input parses as a NormalizedVersion, the normalized suggest returns it
\* unchanged
C12_SuggestTotal ==
    /\ result.op = "suggest" /\ HasSuggester => result.exc = "none"
    /\ ParsedSuggestion => result.exc = "none" /\ result.version # None
    /\ ( /\ result.op = "suggest"
         /\ scheme.suggest = "NormalizedVersionScheme.suggest"
         /\ NormalizedVersion(result.arg).exc = "none" )
       => result.text = SomeStr(result.arg)

\* the semantic suggester rewrote "1.0 al,fa", and the parser was given the result
C12_Witness ==
    /\ ParsedSuggestion
    /\ scheme.suggest = "suggest_semantic_version"
    /\ result.arg = "1.0.0+alfa"
    /\ result.exc = "none"

(***************************************************************************)
(* The adaptive parse                                                      *)
(***************************************************************************)

\* an adaptive version class was just called
AdaptiveBuilt == result.op \in {"AdaptiveVersion", "adaptive.AdaptiveVersion"}

\* the Version that the last call of a version class returned
LastBuilt == IF y # None THEN y ELSE x

\* the last call of a version class left no Version
NoneBuilt == y = None /\ (made.x = "" => x = None)

\* the branch that settles the adaptive parse of s: "normalized",
\* "suggestion", "semantic" or "none"
Branch(s) ==
    IF NormalizedVersion(s).exc = "none" THEN "normalized"
    ELSE IF ~NormalizedSuggest(Strip(s)).none THEN "suggestion"
    ELSE IF SemanticVersion(s).exc = "none" THEN "semantic"
    ELSE "none"

\* the key that the first branch to succeed gives
BranchKey(s) ==
    Let1(Branch(s), LAMBDA b :
        IF b = "normalized" THEN NormalizedVersion(s).val.parts
        ELSE IF b = "suggestion" THEN NormalizedVersion(NormalizedSuggest(Strip(s)).s).val.parts
        ELSE SemanticVersion(s).val.parts)

\* C13: the adaptive parse of s gives the normalized key of s; failing that,
\* the normalized key of the normalized suggestion for s when there is one;
\* failing that, the semantic key of s; and when that fails too, the call
\* raises ValueError and leaves no Version
C13_AdaptiveBranches ==
    AdaptiveBuilt =>
        IF Branch(result.arg) = "none" THEN result.exc = "ValueError" /\ NoneBuilt
        ELSE result.exc = "none" /\ LastBuilt.parts = BranchKey(result.arg)

\* an adaptive version class was just called with s and returned a Version
AdaptiveParsed(s) == AdaptiveBuilt /\ result.arg = s /\ result.exc = "none"

\* a key written as in Python: tuples of ints and of strs
StrTuple(ss) == PyTuple([i \in 1..Len(ss) |-> PyStr(ss[i])])

\* C14, as claimed: the adaptive parse of "1.0" succeeds by the normalized
\* branch; the adaptive parse of "1.0.0-alpha" gets no normalized suggestion
\* and succeeds by the semantic branch with the key
\* ((1, 0, 0), ('alpha',), ('*',))
C14_AdaptiveExamples ==
    /\ AdaptiveParsed("1.0") =>
          /\ Branch("1.0") = "normalized"
          /\ LastBuilt.parts = NormalizedVersion("1.0").val.parts
    /\ AdaptiveParsed("1.0.0-alpha") =>
          /\ NormalizedVersion("1.0.0-alpha").exc # "none"
          /\ NormalizedSuggest("1.0.0-alpha").none
          /\ Branch("1.0.0-alpha") = "semantic"
          /\ LastBuilt.parts = PyTuple(<<PyInts(<<1, 0, 0>>), StrTuple(<<"alpha">>),
                                         StrTuple(<<"*">>)>>)

\* C14, amended: the adaptive parse of "1.0" succeeds by the normalized
\* branch; the adaptive parse of "1.0.0-alpha" fails the normalized parse,
\* gets the normalized suggestion "1.0.0a0" and succeeds by the suggestion
\* branch with the key ((1,), ('a', 0), ('_',), ('final',))
C14_AdaptiveExamplesAmended ==
    /\ AdaptiveParsed("1.0") =>
          /\ Branch("1.0") = "normalized"
          /\ LastBuilt.parts = NormalizedVersion("1.0").val.parts
    /\ AdaptiveParsed("1.0.0-alpha") =>
          /\ NormalizedVersion("1.0.0-alpha").exc # "none"
          /\ NormalizedSuggest("1.0.0-alpha") = SomeStr("1.0.0a0")
          /\ Branch("1.0.0-alpha") = "suggestion"
          /\ LastBuilt.parts = PyTuple(<<PyInts(<<1>>), PyTuple(<<PyStr("a"), PyInt(0)>>),
                                         StrTuple(<<"_">>), StrTuple(<<"final">>)>>)

\* the AdaptiveVersion of __init__.py parsed "1.0.0-alpha"
C14_Witness == AdaptiveParsed("1.0.0-alpha") /\ result.op = "AdaptiveVersion" /\ x # None

(***************************************************************************)
(* Semantic versions                                                       *)
(***************************************************************************)

\* the text of a semantic version before its build metadata
Core(s) == SubSeq(s, 1, PlusIndex(s) - 1)

\* index of the first "-" of s, Len(s) + 1 when there is none
DashIndex(s) ==
    LET D == {i \in 1..Len(s) : SubSeq(s, i, i) = "-"}
    IN IF D = {} THEN Len(s) + 1 ELSE CHOOSE i \in D : \A j \in D : i <= j

\* MAJOR.MINOR.PATCH as written, and the prerelease segment after its "-"
ReleaseText(s) == SubSeq(Core(s), 1, DashIndex(Core(s)) - 1)
PrereleaseText(s) == From(Core(s), DashIndex(Core(s)))
HasPrerelease(s) == DashIndex(Core(s)) <= Len(Core(s))

\* x and y are SemanticVersions and were just compared
SemanticCompared == BothBuilt /\ made.x = "SemanticVersion" /\ made.y = "SemanticVersion"

\* x op y was evaluated and returned b
Answered(op, b) == result.op = op /\ result.exc = "none" /\ result.val = b

\* the semantic versions a and b were just compared, a as x and b as y
SemanticExample(a, b) == SemanticCompared /\ x.string = a /\ y.string = b

\* C15: a semantic version with a prerelease segment is below the version of
\* the same MAJOR.MINOR.PATCH without one; a prerelease extended by further
\* dot-separated identifiers is above the one it extends;
\* 1.0.0-alpha < 1.0.0-alpha.1 < 1.0.0; and is_prerelease is true exactly
\* for the versions that have a prerelease segment
C15_PrereleaseOrder ==
    /\ ( /\ SemanticCompared /\ result.op \in {"<", ">"}
         /\ ReleaseText(x.string) = ReleaseText(y.string)
         /\ HasPrerelease(x.string) /\ ~HasPrerelease(y.string) )
       => Answered("<", TRUE) \/ Answered(">", FALSE)
    /\ ( /\ SemanticCompared /\ result.op \in {"<", ">"}
         /\ ReleaseText(x.string) = ReleaseText(y.string)
         /\ HasPrerelease(x.string)
         /\ StartsWith(PrereleaseText(y.string), PrereleaseText(x.string) \o ".") )
       => Answered("<", TRUE) \/ Answered(">", FALSE)
    /\ SemanticExample("1.0.0-alpha", "1.0.0-alpha.1") /\ result.op = "<" => Answered("<", TRUE)
    /\ SemanticExample("1.0.0-alpha.1", "1.0.0") /\ result.op = "<" => Answered("<", TRUE)
    /\ result.op = "is_prerelease" /\ made.x = "SemanticVersion"
       => (result.val <=> HasPrerelease(x.string))

\* 1.0.0-alpha.1 < 1.0.0 was evaluated
C15_Witness == SemanticExample("1.0.0-alpha.1", "1.0.0") /\ Answered("<", TRUE)

(***************************************************************************)
(* Legacy versions                                                         *)
(***************************************************************************)

\* x and y are LegacyVersions
LegacyBuilt == BothBuilt /\ made.x = "LegacyVersion" /\ made.y = "LegacyVersion"

\* the tokens of the key of a LegacyVersion
Tokens(v) == [i \in 1..Len(v.parts.items) |-> v.parts.items[i].s]

\* a '*'-prefixed token that sorts below "*final"
IsLowToken(tok) == StartsWith(tok, "*") /\ StrLess(tok, "*final")

\* the positions of "*final-" in a sequence of tokens
Danglers(toks) == {i \in 1..Len(toks) : toks[i] = "*final-"}

\* the "*final-" tokens of toks with nothing but "*final-" tokens between
\* them and a '*'-prefixed token below "*final" that follows
DanglersBeforeLow(toks) ==
    {i \in Danglers(toks) :
        \E j \in (i + 1)..Len(toks) :
            IsLowToken(toks[j]) /\ \A m \in (i + 1)..(j - 1) : toks[m] = "*final-"}

RegisteredNames == {"normalized", "legacy", "semantic", "adaptive", "default"}

\* the version class of the scheme registered under each name
RegisteredClass(name) ==
    IF name = "normalized" THEN "NormalizedVersion"
    ELSE IF name = "legacy" THEN "LegacyVersion"
    ELSE IF name = "semantic" THEN "SemanticVersion"
    ELSE "AdaptiveVersion"

\* get_scheme was just called
Got == result.op = "get_scheme"

\* C17: get_scheme returns a scheme for normalized, legacy, semantic,
\* adaptive and default and raises ValueError for every other name; default
\* is bound to the object that adaptive is bound to, and the other names to
\* objects of their own; and after any calls of get_scheme, of a scheme, of
\* its suggest and of its matcher the registry is as it was built, so that a
\* name always gets the same object
C17_Registry ==
    /\ schemes = _SCHEMES
    /\ DOMAIN schemes = RegisteredNames
    /\ \A a \in RegisteredNames : \A b \in RegisteredNames :
          (schemes[a] = schemes[b]) <=> (a = b \/ {a, b} = {"adaptive", "default"})
    /\ \A a \in RegisteredNames : schemes[a].version_class = RegisteredClass(a)
    /\ Got /\ result.arg \in RegisteredNames => result.exc = "none" /\ scheme = schemes[result.arg]
    /\ Got /\ result.arg \notin RegisteredNames => result.exc = "ValueError"

\* get_scheme('default') returned the adaptive scheme
C17_Witness ==
    /\ Got /\ result.arg = "default" /\ result.exc = "none"
    /\ scheme.version_class = "AdaptiveVersion" /\ scheme = schemes["adaptive"]

\* a numeric token, a '*'-prefixed token, a '*'-prefixed token made of letters
IsNumericToken(tok) == tok # "" /\ IsDigit(SubSeq(tok, 1, 1))
IsStarToken(tok) == StartsWith(tok, "*")
IsWordToken(tok) ==
    /\ IsStarToken(tok) /\ Len(tok) > 1
    /\ \A i \in 2..Len(tok) : IsAlpha(SubSeq(tok, i, i))

\* x < y was evaluated for two LegacyVersions whose keys first differ in the
\* tokens a of x and b of y
TokensCompared(a, b) ==
    /\ LegacyBuilt /\ result.op = "<"
    /\ Let1(FirstDiff(Tokens(x), Tokens(y)), LAMBDA i :
          /\ i # 0
          /\ Tokens(x)[i] = a
          /\ Tokens(y)[i] = b)

\* the tokens of the keys of x and y
TokenPairs ==
    {<<Tokens(x)[i], Tokens(y)[i]>> :
        i \in 1..(IF Len(Tokens(x)) < Len(Tokens(y)) THEN Len(Tokens(x)) ELSE Len(Tokens(y)))}

\* numeric tokens compare as numbers, and '*@' is below every '*'-prefixed
\* token made of letters
NumericAndDevOrder ==
    \A p \in TokenPairs :
       TokensCompared(p[1], p[2]) =>
          /\ IsNumericToken(p[1]) /\ IsNumericToken(p[2])
             => Answered("<", ToInt(p[1]) < ToInt(p[2]))
          /\ p[1] = "*@" /\ IsWordToken(p[2]) => Answered("<", TRUE)
          /\ IsWordToken(p[1]) /\ p[2] = "*@" => Answered("<", FALSE)

\* C18, as claimed: in a legacy key numeric tokens of up to 8 digits compare
\* in numeric order, every '*'-prefixed token compares greater than every
\* numeric token, and '*@' compares less than every '*'-prefixed token made
\* of letters
C18_TokenOrder ==
    /\ NumericAndDevOrder
    /\ \A p \in TokenPairs :
          TokensCompared(p[1], p[2]) =>
             /\ IsStarToken(p[1]) /\ IsNumericToken(p[2]) => Answered("<", FALSE)
             /\ IsNumericToken(p[1]) /\ IsStarToken(p[2]) => Answered("<", TRUE)

\* C18, amended: in a legacy key numeric tokens of up to 8 digits compare in
\* numeric order, every '*'-prefixed token compares less than every numeric
\* token, and '*@' compares less than every '*'-prefixed token made of
\* letters
C18_TokenOrderAmended ==
    /\ NumericAndDevOrder
    /\ \A p \in TokenPairs :
          TokensCompared(p[1], p[2]) =>
             /\ IsStarToken(p[1]) /\ IsNumericToken(p[2]) => Answered("<", TRUE)
             /\ IsNumericToken(p[1]) /\ IsStarToken(p[2]) => Answered("<", FALSE)

\* 1.0a < 1.0.1 was evaluated: '*a' against '00000000'
C18_Witness ==
    /\ LegacyBuilt /\ x.string = "1.0a" /\ y.string = "1.0.1"
    /\ TokensCompared("*a", "00000000")
    /\ Answered("<", TRUE)

\* C19: two semantic versions that differ in one numeric identifier only
\* compare as the numbers do, whatever the numbers
C19_NumericIdentifiers ==
    \A prefix \in IdentifierPrefixes : \A m \in NumericIdentifiers : \A n \in NumericIdentifiers :
       ( /\ SemanticExample(prefix \o m, prefix \o n)
         /\ result.op \in {"<", ">"} )
       => Answered(result.op, IF result.op = "<" THEN ToInt(m) < ToInt(n) ELSE ToInt(m) > ToInt(n))

(***************************************************************************)
(* Bounds that are equal Versions                                          *)
(***************************************************************************)

\* the NormalizedMatcher with the one constraint op bound
OneConstraint(op, bound) ==
    Matcher__init__("NormalizedMatcher", "foo (" \o op \o bound \o ")", python).val

\* C20: when two bounds are equal NormalizedVersions, a candidate satisfies
\* the constraint "op Y1" iff it satisfies "op Y2", for every operator
C20_EqualBounds ==
    NormalizedMatched(ConstraintOperators \ {""}) =>
        \A bound \in BoundStrings :
           \A m \in {OneConstraint(matcher.parts[1].op, bound)} :
              m.parts[1].version.parts = matcher.parts[1].version.parts
              => Matcher_match(m, x, python) = [exc |-> result.exc, val |-> result.val]

(***************************************************************************)
(* The legacy parser                                                       *)
(***************************************************************************)

\* the scheme in hand is the legacy scheme
LegacyScheme == scheme.version_class = "LegacyVersion"

\* C21: LegacyVersion accepts every string, the empty string and strings
\* without digits included: the call of the legacy scheme never raises, its
\* is_valid_version returns True, and the key is a non-empty tuple that ends
\* with "*final"
C21_LegacyTotal ==
    /\ result.op = "call" /\ LegacyScheme =>
          /\ result.exc = "none" /\ result.version # None
          /\ Len(result.version.parts.items) >= 1
          /\ result.version.parts.items[Len(result.version.parts.items)] = PyStr("*final")
    /\ result.op = "is_valid_version" /\ LegacyScheme => Returned(TRUE)

\* the legacy scheme was asked whether the empty string is a valid version
C21_Witness ==
    /\ result.op = "is_valid_version" /\ LegacyScheme
    /\ result.arg = ""
    /\ Returned(TRUE)

=============================================================================
